---- MODULE Spec2Model ----
(***************************************************************************)
(* A model of the command-line scripts of woo_data_playground.             *)
(*                                                                         *)
(* Every script is a single sequential process, so each one gets its own   *)
(* specification over the shared variable `pc`:                            *)
(*   SpecRefine   grid_line_detector.refine_lines on integer lists         *)
(*   Spec         find_grid_lines_on_image on an arbitrary edge image      *)
(*   SpecEstimate estimate_line_likelihood where the divisions round       *)
(*   SpecOcr      cuda_ocr.process_pdf over pages whose OCR may fail       *)
(*   SpecMain     cuda_ocr.main, the loop over the listed PDF files        *)
(*   SpecCut      pdf_cutter, the pages kept and removed                   *)
(*   SpecSave     pdf_cutter.save_pages                                    *)
(*   SpecExtract  find_document_number.extract_pdf_data                    *)
(*   SpecDoc      find_document_number.main and analyse                    *)
(*   SpecChunk    ner.chunk_text                                           *)
(*   SpecNer      ner.main: process_file and the output of the entities    *)
(*   SpecGet      get_pdfs.main                                            *)
(*   SpecExcel    pdf_to_excel.main and process_pdf_and_ocr_to_excel       *)
(* The variables a specification does not use keep their idle value.       *)
(***************************************************************************)
EXTENDS Integers, Sequences, FiniteSets, TLC

VARIABLES
    pc,                         \* position of the running script
    \* ---- grid_line_detector.refine_lines
    lines,                      \* argument `lines`
    min_distance,               \* argument `min_distance`
    refined,                    \* the returned list
    \* ---- grid_line_detector.find_grid_lines_on_image
    edges,                      \* cv2.Canny output: rows of pixels, 0 or 255
    vertical_line_likelihood,
    horizontal_line_likelihood,
    divisors,                   \* the maxima line_likelihood was divided by
    cutoff_fraction,
    max_columns,
    max_rows,
    vertical_selected,          \* coordinates passing the cutoff (lines 86-90)
    horizontal_selected,
    vertical_refined,
    horizontal_refined,
    vertical_lines,             \* the returned pair
    horizontal_lines,
    \* ---- cuda_ocr.process_pdf
    doc,                        \* per page: the OCR outcome
    page_num,
    full_text,
    printed,                    \* pages whose error message was printed
    processed,                  \* pages whose "Processing page" line was printed
    extracted_text,             \* the returned string
    \* ---- the environment of a script: file system, console, exit, network
    fs,                         \* the files: a set of [path, content]
    stdout,                     \* the messages printed
    exit_status,                \* None while running or after a normal end
    http_log,                   \* the URLs requested
    \* ---- pdf_cutter
    excel_rows,                 \* the rows of the Excel file, in file order
    num_pages,                  \* len(input_pdf.pages)
    mappings,                   \* the sorted data frame
    row_pos,                    \* rows of `mappings` already iterated
    \* ---- find_document_number
    pdf_texts,                  \* per page: the text inside the viewbox
    dump,                       \* --dump
    page_number,
    ocr_consulted,              \* pages handed to extract_text_from_image
    output_data,
    minimum,
    maximum,
    analyse_flag,               \* args.analyse
    output_file,                \* args.output_file
    id_pos,                     \* entries of document_ids already iterated
    prev_id,
    first,
    out_of_order_ids,
    missing_ids,
    \* ---- cuda_ocr.main
    pdf_files,                  \* args.pdf_files
    documents,                  \* the pages of the PDF at each listed path
    force,                      \* args.force
    file_pos,                   \* entries of pdf_files already iterated
    ocr_runs,                   \* the files process_pdf was called on
    \* ---- ner.chunk_text
    text,
    max_length,
    chunks,
    \* ---- get_pdfs
    data,                       \* what get_json_data returns
    link_title_pairs,
    pub_pos,                    \* entries of link_title_pairs already iterated
    \* ---- pdf_to_excel
    zoom,                       \* args.zoom
    images,                     \* the page images
    img_pos,                    \* images already processed
    all_page_data,
    no_ocr,                     \* args.no_ocr
    verbose,                    \* args.verbose
    debug,                      \* args.debug
    found_lines,                \* last page: <<vertical, horizontal>> lines found on grid_img
    cell_lines,                 \* last page: the lines after lines 127-130
    \* ---- ner.main (its args.verbose is the variable verbose)
    ner_file,                   \* the file: its kind and what the tagger does per page or chunk
    item_pos,                   \* pages or chunks already iterated
    entities,                   \* the dict being accumulated
    certainty,                  \* args.certainty
    output_excel,               \* args.output_excel
    output_csv,                 \* args.output_csv
    sorted_entities             \* the sorted list main puts out

vars == <<pc, lines, min_distance, refined, edges, vertical_line_likelihood,
          horizontal_line_likelihood, divisors, cutoff_fraction, max_columns,
          max_rows, vertical_selected, horizontal_selected, vertical_refined,
          horizontal_refined, vertical_lines, horizontal_lines, doc, page_num,
          full_text, printed, processed, extracted_text,
          fs, stdout, exit_status, http_log,
          excel_rows, num_pages, mappings, row_pos,
          pdf_texts, dump, page_number, ocr_consulted, output_data, minimum,
          maximum, analyse_flag, output_file, id_pos, prev_id, first,
          out_of_order_ids, missing_ids,
          pdf_files, documents, force, file_pos, ocr_runs,
          text, max_length, chunks,
          data, link_title_pairs, pub_pos,
          zoom, images, img_pos, all_page_data, no_ocr, verbose, debug,
          found_lines,
          cell_lines,
          ner_file, item_pos, entities, certainty, output_excel, output_csv,
          sorted_entities>>

refineVars == <<lines, min_distance, refined>>
gridVars == <<edges, vertical_line_likelihood, horizontal_line_likelihood,
              divisors, cutoff_fraction, max_columns, max_rows,
              vertical_selected, horizontal_selected, vertical_refined,
              horizontal_refined, vertical_lines, horizontal_lines>>
ocrVars == <<doc, page_num, full_text, printed, processed, extracted_text>>
envVars == <<fs, stdout, exit_status, http_log>>
cutVars == <<excel_rows, num_pages, mappings, row_pos>>
docVars == <<pdf_texts, dump, page_number, ocr_consulted, output_data, minimum,
             maximum, analyse_flag, output_file, id_pos, prev_id, first,
             out_of_order_ids, missing_ids>>
mainVars == <<pdf_files, documents, force, file_pos, ocr_runs>>
chunkVars == <<text, max_length, chunks>>
getVars == <<data, link_title_pairs, pub_pos>>
excelVars == <<zoom, images, img_pos, all_page_data, no_ocr, verbose, debug,
               found_lines,
               cell_lines>>
nerVars == <<ner_file, item_pos, entities, certainty, output_excel, output_csv,
             sorted_entities>>
laterVars == <<envVars, cutVars, docVars, mainVars, chunkVars, getVars,
               excelVars, nerVars>>

\* an optional argument is <<>> for None and <<k>> for the value k
None == <<>>
Some(k) == <<k>>

(***************************************************************************)
(* Bounds of the model.                                                    *)
(***************************************************************************)
MaxLen == 3          \* refine_lines: longest input list
MaxCoord == 3        \* refine_lines: largest coordinate
NegCoord == 1        \* refine_lines: coordinates start at -NegCoord
MaxDist == 2         \* refine_lines: largest min_distance
ImgWidth == 3        \* edge image: columns
ImgHeight == 2       \* edge image: rows
TallWidth == 2       \* tall edge image: columns
TallHeight == 5      \* tall edge image: rows
MaxPages == 3        \* cuda_ocr: pages of the PDF

(***************************************************************************)
(* Sequence helpers.                                                       *)
(***************************************************************************)
SeqsUpTo(S, n) == UNION {[1..k -> S] : k \in 0..n}

RECURSIVE SumSeq(_)
SumSeq(s) == IF s = <<>> THEN 0 ELSE Head(s) + SumSeq(Tail(s))

Last(s) == s[Len(s)]

DigitChars == <<"0", "1", "2", "3", "4", "5", "6", "7", "8", "9">>

\* str() of a number >= 0
RECURSIVE ToStr(_)
ToStr(n) ==
    IF n < 10 THEN <<DigitChars[n + 1]>>
    ELSE ToStr(n \div 10) \o <<DigitChars[(n % 10) + 1]>>

\* the format specification 04 / 04d: zeros on the left up to the width
RECURSIVE ZeroPad(_, _)
ZeroPad(str, width) ==
    IF Len(str) >= width THEN str ELSE ZeroPad(<<"0">> \o str, width)

\* s[:k] for k >= 0
Take(s, k) == SubSeq(s, 1, IF k < Len(s) THEN k ELSE Len(s))

\* Python's int() of the quotient s / n, n > 0: truncation toward zero
TruncDiv(s, n) == IF s >= 0 THEN s \div n ELSE -((-s) \div n)

\* sorted(lines): ascending insertion sort
RECURSIVE Insert(_, _)
Insert(x, s) ==
    IF s = <<>> THEN <<x>>
    ELSE IF x < Head(s) THEN <<x>> \o s
    ELSE <<Head(s)>> \o Insert(x, Tail(s))

RECURSIVE sorted(_)
sorted(s) == IF s = <<>> THEN <<>> ELSE Insert(Head(s), sorted(Tail(s)))

(***************************************************************************)
(* grid_line_detector.refine_lines                                         *)
(***************************************************************************)
\* int(np.mean(current_group))
IntMean(group) == TruncDiv(SumSeq(group), Len(group))

\* mutant: the group is represented by its first member pushed right by
\* min_distance instead of by its mean
RepresentativeShifted(group, d) == Head(group) + d

\* the representative appended for a finished group
Representative(group, d) == IntMean(group)

\* mutant: a line joins the group unless it is min_distance or more away
StartsNewGroupOffByOne(current_group, line, d) ==
    current_group = <<>> \/ line - Last(current_group) >= d

\* line 56: `not current_group or line - current_group[-1] > min_distance`
StartsNewGroup(current_group, line, d) ==
    current_group = <<>> \/ line - Last(current_group) > d

\* the loop of lines 55-61 over the already sorted list, then lines 63-66
RECURSIVE RefineLoop(_, _, _, _)
RefineLoop(rest, acc, current_group, d) ==
    IF rest = <<>>
    THEN IF current_group # <<>>
         THEN Append(acc, Representative(current_group, d))
         ELSE acc
    ELSE LET line == Head(rest) IN
         IF StartsNewGroup(current_group, line, d)
         THEN RefineLoop(Tail(rest),
                         IF current_group # <<>>
                         THEN Append(acc, Representative(current_group, d))
                         ELSE acc,
                         <<line>>, d)
         ELSE RefineLoop(Tail(rest), acc, Append(current_group, line), d)

\* mutant: the loop runs over the list as given
refine_lines_unsorted(ls, d) == RefineLoop(ls, <<>>, <<>>, d)

refine_lines(ls, d) == RefineLoop(sorted(ls), <<>>, <<>>, d)

(***************************************************************************)
(* IEEE-754 binary64, round to nearest even.  A float is a record          *)
(* [neg, exp, man]: value (-1)^neg * man * 2^(exp - 52), where man is an   *)
(* integer of 53 bits (2^52 <= man < 2^53) held as four limbs of 14 bits,  *)
(* least significant first.  0.0 has exp -1023 and man 0; nan has exp 1024 *)
(* and man # 0; inf has exp 1024 and man 0.                                *)
(***************************************************************************)
LimbBase == 2^14
BigZero == <<0, 0, 0, 0>>
BigTwo52 == <<0, 0, 0, 2^10>>
BigTwo53 == <<0, 0, 0, 2^11>>

RECURSIVE BigCarry(_, _)
BigCarry(s, c) ==
    IF s = <<>> THEN <<c>>
    ELSE LET t == Head(s) + c IN
         <<t % LimbBase>> \o BigCarry(Tail(s), t \div LimbBase)

\* x * k for 0 <= k <= LimbBase, one limb longer than x
BigMulSmall(x, k) == BigCarry([i \in DOMAIN x |-> x[i] * k], 0)

\* the operations of the long division, on numbers of four limbs
BigDouble(x) ==
    <<(2 * x[1]) % LimbBase,
      (2 * x[2] + x[1] \div 2^13) % LimbBase,
      (2 * x[3] + x[2] \div 2^13) % LimbBase,
      2 * x[4] + x[3] \div 2^13>>

BigInc(x) ==
    IF x[1] + 1 < LimbBase THEN <<x[1] + 1, x[2], x[3], x[4]>>
    ELSE IF x[2] + 1 < LimbBase THEN <<0, x[2] + 1, x[3], x[4]>>
    ELSE IF x[3] + 1 < LimbBase THEN <<0, 0, x[3] + 1, x[4]>>
    ELSE <<0, 0, 0, x[4] + 1>>

BigLess(x, y) ==
    \/ x[4] < y[4]
    \/ /\ x[4] = y[4]
       /\ \/ x[3] < y[3]
          \/ /\ x[3] = y[3]
             /\ \/ x[2] < y[2]
                \/ x[2] = y[2] /\ x[1] < y[1]

\* x - y for x >= y
BigSub(x, y) ==
    LET b1 == IF x[1] < y[1] THEN 1 ELSE 0
        b2 == IF x[2] < y[2] + b1 THEN 1 ELSE 0
        b3 == IF x[3] < y[3] + b2 THEN 1 ELSE 0
    IN  <<(x[1] - y[1]) % LimbBase, (x[2] - y[2] - b1) % LimbBase,
          (x[3] - y[3] - b2) % LimbBase, x[4] - y[4] - b3>>

\* the product of two numbers of four limbs, in eight limbs
BigMul(x, y) ==
    LET term(i, k) == IF k - i \in 1..4 THEN x[i] * y[k - i] ELSE 0
    IN  BigCarry([k \in 1..7 |-> term(1, k + 1) + term(2, k + 1)
                                  + term(3, k + 1) + term(4, k + 1)], 0)

\* the integer value of a number that fits a machine word
RECURSIVE BigValue(_)
BigValue(x) == IF x = <<>> THEN 0 ELSE Head(x) + LimbBase * BigValue(Tail(x))

NaN == [neg |-> FALSE, exp |-> 1024, man |-> <<1, 0, 0, 0>>]
Inf(neg) == [neg |-> neg, exp |-> 1024, man |-> BigZero]
Zero == [neg |-> FALSE, exp |-> -1023, man |-> BigZero]
One == [neg |-> FALSE, exp |-> 0, man |-> BigTwo52]

IsNaN(a) == a.exp = 1024 /\ a.man # BigZero
IsInf(a) == a.exp = 1024 /\ a.man = BigZero
IsZero(a) == a.exp = -1023

\* round to nearest, ties to even: q is the quotient, twice the remainder is
\* compared with the divisor
RoundedUp(q, twice_rest_less, twice_rest_equal) ==
    IF twice_rest_less \/ (twice_rest_equal /\ q[1] % 2 = 0) THEN q ELSE BigInc(q)

\* a 53-bit mantissa after rounding: 2^53 becomes 2^52 with the next exponent
Normalised(neg, exp, man) ==
    IF man = BigTwo53 THEN [neg |-> neg, exp |-> exp + 1, man |-> BigTwo52]
    ELSE [neg |-> neg, exp |-> exp, man |-> man]

RECURSIVE Log2(_)
Log2(n) == IF n < 2 THEN 0 ELSE 1 + Log2(n \div 2)

\* float(n) of an integer n, |n| < 2^28: n shifted up to 53 bits
FromInt(n) ==
    IF n = 0 THEN Zero
    ELSE LET a == IF n < 0 THEN -n ELSE n
             shift == 52 - Log2(a)
             scaled == BigMulSmall(<<a % LimbBase, a \div LimbBase, 0, 0>>,
                                   2^(shift % 14))
         IN  [neg |-> n < 0, exp |-> Log2(a),
              man |-> SubSeq(<<0, 0, 0>> \o scaled,
                             4 - shift \div 14, 7 - shift \div 14)]

\* long division of mantissas with rest < d: k more bits of the quotient
\* digit q, and the rest they leave
RECURSIVE DivDigit(_, _, _, _)
DivDigit(rest, d, q, k) ==
    IF k = 0 THEN <<q, rest>>
    ELSE IF rest = BigZero THEN <<q * 2^k, rest>>
    ELSE IF BigLess(BigDouble(rest), d)
         THEN DivDigit(BigDouble(rest), d, 2 * q, k - 1)
         ELSE DivDigit(BigSub(BigDouble(rest), d), d, 2 * q + 1, k - 1)

\* the 53 bits of the quotient of two mantissas, limb by limb from the top
\* limb of 11 bits, rounded
Quotient(top, d) ==
    LET l3 == DivDigit(top[2], d, 0, 14)
        l2 == DivDigit(l3[2], d, 0, 14)
        l1 == DivDigit(l2[2], d, 0, 14)
    IN  RoundedUp(<<l1[1], l2[1], l3[1], top[1]>>,
                  BigLess(BigDouble(l1[2]), d), BigDouble(l1[2]) = d)

F64Div(a, b) ==
    IF IsNaN(a) \/ IsNaN(b) \/ (IsZero(a) /\ IsZero(b)) \/ (IsInf(a) /\ IsInf(b))
    THEN NaN
    ELSE IF IsInf(a) \/ IsZero(b) THEN Inf(a.neg # b.neg)
    ELSE IF IsZero(a) \/ IsInf(b) THEN Zero
    ELSE IF b.man = BigTwo52
         THEN [neg |-> a.neg # b.neg, exp |-> a.exp - b.exp, man |-> a.man]
    ELSE IF BigLess(a.man, b.man)
         THEN Normalised(a.neg # b.neg, a.exp - b.exp - 1,
                         Quotient(DivDigit(a.man, b.man, 0, 11), b.man))
         ELSE Normalised(a.neg # b.neg, a.exp - b.exp,
                         Quotient(DivDigit(BigSub(a.man, b.man), b.man, 1, 10), b.man))

\* a * b rounded to the nearest float, ties to even; a factor that is a
\* power of two only moves the exponent
F64Mul(a, b) ==
    IF IsNaN(a) \/ IsNaN(b) \/ (IsZero(a) /\ IsInf(b)) \/ (IsInf(a) /\ IsZero(b))
    THEN NaN
    ELSE IF IsInf(a) \/ IsInf(b) THEN Inf(a.neg # b.neg)
    ELSE IF IsZero(a) \/ IsZero(b) THEN Zero
    ELSE IF a.man = BigTwo52
    THEN [neg |-> a.neg # b.neg, exp |-> a.exp + b.exp, man |-> b.man]
    ELSE IF b.man = BigTwo52
    THEN [neg |-> a.neg # b.neg, exp |-> a.exp + b.exp, man |-> a.man]
    ELSE LET p == BigMul(a.man, b.man)
             wide == p[8] >= 2^7
             scaled == BigMulSmall(p, IF wide THEN 2^3 ELSE 2^4)
             q == SubSeq(scaled, 5, 8)
             rest == SubSeq(scaled, 1, 4)
             half == <<0, 0, 0, 2^13>>
         IN  Normalised(a.neg # b.neg, a.exp + b.exp + (IF wide THEN 1 ELSE 0),
                        RoundedUp(q, BigLess(rest, half), rest = half))

\* the float nearest to n / d
F64(n, d) == F64Div(FromInt(n), FromInt(d))

MagLess(a, b) == a.exp < b.exp \/ (a.exp = b.exp /\ BigLess(a.man, b.man))
F64Lt(a, b) ==
    /\ ~IsNaN(a) /\ ~IsNaN(b)
    /\ IF a.neg # b.neg THEN a.neg
       ELSE IF a.neg THEN MagLess(b, a) ELSE MagLess(a, b)
F64Gt(a, b) == F64Lt(b, a)
F64Geq(a, b) == ~IsNaN(a) /\ ~IsNaN(b) /\ ~F64Lt(a, b)

\* np.max of a non-empty array: nan if any entry is nan
F64Max(s) ==
    IF \E i \in DOMAIN s : IsNaN(s[i]) THEN NaN
    ELSE CHOOSE m \in {s[i] : i \in DOMAIN s} : \A i \in DOMAIN s : F64Geq(m, s[i])

\* int(a) for a finite a with |a| < 2^31: truncation toward zero
F64Int(a) ==
    IF a.exp < 0 THEN 0
    ELSE LET bits == 52 - a.exp
             scaled == BigMulSmall(a.man, 2^(14 - (bits % 14)))
             kept == SubSeq(scaled, bits \div 14 + 2, 5)
         IN  (IF a.neg THEN -1 ELSE 1) * BigValue(kept)

(***************************************************************************)
(* grid_line_detector.estimate_line_likelihood                             *)
(* An image is a sequence of rows (shape[0]) of pixels (shape[1]);         *)
(* coordinate i of the code is index i + 1 of the model's sequences.       *)
(***************************************************************************)
Pixels == {0, 255}

\* every image of ImgHeight rows and ImgWidth columns
Images == [1..ImgHeight -> [1..ImgWidth -> Pixels]]

\* taller images, one for every count of edge pixels of every column (the
\* edge pixels of a column are its topmost pixels), and their transposes
TallImages ==
    {[r \in 1..TallHeight |-> [c \in 1..TallWidth |-> IF r <= n[c] THEN 255 ELSE 0]] :
        n \in [1..TallWidth -> 0..TallHeight]}
WideImages ==
    {[r \in 1..TallWidth |-> [c \in 1..TallHeight |-> img[c][r]]] : img \in TallImages}

Shape(img, axis_index) == IF axis_index = 0 THEN Len(img) ELSE Len(img[1])

\* processed_image[:, i] for axis "x", processed_image[i, :] for axis "y"
LinePixels(img, axis, i) ==
    IF axis = "x" THEN [r \in 1..Len(img) |-> img[r][i]] ELSE img[i]

\* np.sum(line_pixels != 0)
RECURSIVE CountNonZero(_)
CountNonZero(px) ==
    IF px = <<>> THEN 0
    ELSE (IF Head(px) # 0 THEN 1 ELSE 0) + CountNonZero(Tail(px))

\* lines 36-40, the loop from line i on: np.sum(line_pixels != 0) / shape
RECURSIVE RawFrom(_, _, _)
RawFrom(img, axis, i) ==
    LET axis_index == IF axis = "x" THEN 1 ELSE 0 IN
    IF i > Shape(img, axis_index) THEN <<>>
    ELSE <<F64(CountNonZero(LinePixels(img, axis, i)), Shape(img, 1 - axis_index))>>
         \o RawFrom(img, axis, i + 1)

\* lines 36-40: the fraction of non-zero pixels of every line
RawLikelihood(img, axis) == RawFrom(img, axis, 1)

\* mutant: the guard on the maximum is dropped
NormaliseAlways(line_likelihood) == TRUE

\* line 42: `if np.max(line_likelihood) != 0`
ShouldNormalise(line_likelihood) == F64Max(line_likelihood) # Zero

\* mutant: the normalisation is left out
NotDivided(line_likelihood, m) == line_likelihood

\* line 43: `line_likelihood /= np.max(line_likelihood)`
DivideByMax(line_likelihood, m) ==
    [i \in DOMAIN line_likelihood |-> F64Div(line_likelihood[i], m)]

\* the returned array, and the divisor used when the division was made
estimate_line_likelihood(img, axis) ==
    LET raw == RawLikelihood(img, axis)
        m == F64Max(raw)
    IN  IF ShouldNormalise(raw)
        THEN [likelihood |-> DivideByMax(raw, m), divided_by |-> <<m>>]
        ELSE [likelihood |-> raw, divided_by |-> <<>>]

(***************************************************************************)
(* Idle values of the variables a specification does not use.              *)
(***************************************************************************)
RefineIdle == lines = <<>> /\ min_distance = 0 /\ refined = <<>>

GridIdle ==
    /\ edges = <<>>
    /\ vertical_line_likelihood = <<>>
    /\ horizontal_line_likelihood = <<>>
    /\ divisors = <<>>
    /\ cutoff_fraction = Zero
    /\ max_columns = None
    /\ max_rows = None
    /\ vertical_selected = <<>>
    /\ horizontal_selected = <<>>
    /\ vertical_refined = <<>>
    /\ horizontal_refined = <<>>
    /\ vertical_lines = <<>>
    /\ horizontal_lines = <<>>

OcrIdle ==
    /\ doc = <<>>
    /\ page_num = 0
    /\ full_text = <<>>
    /\ printed = <<>>
    /\ processed = <<>>
    /\ extracted_text = <<>>

EnvIdle == fs = {} /\ stdout = <<>> /\ exit_status = None /\ http_log = <<>>

CutIdle == excel_rows = <<>> /\ num_pages = 0 /\ mappings = <<>> /\ row_pos = 0

DocIdle ==
    /\ pdf_texts = <<>>
    /\ dump = FALSE
    /\ page_number = 0
    /\ ocr_consulted = {}
    /\ output_data = <<>>
    /\ minimum = 0
    /\ maximum = 0
    /\ analyse_flag = FALSE
    /\ output_file = None
    /\ id_pos = 0
    /\ prev_id = <<>>
    /\ first = TRUE
    /\ out_of_order_ids = <<>>
    /\ missing_ids = <<>>

MainIdle ==
    /\ pdf_files = <<>> /\ documents = <<>> /\ force = FALSE
    /\ file_pos = 0 /\ ocr_runs = <<>>

ChunkIdle == text = <<>> /\ max_length = 0 /\ chunks = <<>>

GetIdle == data = None /\ link_title_pairs = <<>> /\ pub_pos = 0

NoLines == <<<<>>, <<>>>>

\* pdf_to_excel is not running; verbose is left to ner
ExcelOff ==
    /\ zoom = None /\ images = <<>> /\ img_pos = 0 /\ all_page_data = <<>>
    /\ no_ocr = FALSE /\ debug = FALSE
    /\ found_lines = NoLines /\ cell_lines = NoLines

ExcelIdle == ExcelOff /\ verbose = FALSE

NoFile == [kind |-> "none", meaningful |-> FALSE, items |-> <<>>]

NerIdle ==
    /\ ner_file = NoFile /\ item_pos = 0 /\ entities = <<>> /\ certainty = Zero
    /\ output_excel = FALSE /\ output_csv = FALSE /\ sorted_entities = <<>>

LaterIdle ==
    /\ EnvIdle /\ CutIdle /\ DocIdle /\ MainIdle /\ ChunkIdle /\ GetIdle
    /\ ExcelIdle /\ NerIdle

firstVars == <<refineVars, gridVars, ocrVars>>
FirstIdle == RefineIdle /\ GridIdle /\ OcrIdle

(***************************************************************************)
(* SpecRefine: refine_lines called on any list of integer coordinates.     *)
(***************************************************************************)
Coords == (0 - NegCoord)..MaxCoord

InitRefine ==
    /\ pc = "refine_call"
    /\ lines \in SeqsUpTo(Coords, MaxLen)
    /\ min_distance \in 0..MaxDist
    /\ refined = <<>>
    /\ GridIdle
    /\ OcrIdle
    /\ LaterIdle

\* the call refine_lines(lines, min_distance) and its return
RefineLinesCall ==
    /\ pc = "refine_call"
    /\ refined' = refine_lines(lines, min_distance)
    /\ pc' = "refine_done"
    /\ UNCHANGED <<lines, min_distance, gridVars, ocrVars, laterVars>>

NextRefine == RefineLinesCall

SpecRefine == InitRefine /\ [][NextRefine]_vars

(***************************************************************************)
(* grid_line_detector.find_grid_lines_on_image, lines 82-124               *)
(***************************************************************************)
\* lines 82-83: np.max(likelihood) * cutoff_fraction
Cutoff(likelihood, cf) == F64Mul(F64Max(likelihood), cf)

\* mutant: only a likelihood above the cutoff passes
PassesCutoffStrict(l, cutoff) == F64Gt(l, cutoff)

\* lines 89, 94: `likelihood >= cutoff`
PassesCutoff(l, cutoff) == F64Geq(l, cutoff)

\* lines 86-95 and 102-106, 110-114: the coordinates passing the cutoff,
\* in enumerate order
RECURSIVE SelectFrom(_, _, _)
SelectFrom(x, likelihood, cutoff) ==
    IF x >= Len(likelihood) THEN <<>>
    ELSE (IF PassesCutoff(likelihood[x + 1], cutoff) THEN <<x>> ELSE <<>>)
         \o SelectFrom(x + 1, likelihood, cutoff)

SelectLines(likelihood, cf) == SelectFrom(0, likelihood, Cutoff(likelihood, cf))

\* lines 98-99: list.sort(key=likelihood, reverse=True), a stable sort
RECURSIVE InsertByLikelihood(_, _, _)
InsertByLikelihood(x, s, likelihood) ==
    IF s = <<>> THEN <<x>>
    ELSE IF F64Gt(likelihood[x + 1], likelihood[Head(s) + 1]) THEN <<x>> \o s
    ELSE <<Head(s)>> \o InsertByLikelihood(x, Tail(s), likelihood)

RECURSIVE SortByLikelihood(_, _, _)
SortByLikelihood(todo, done, likelihood) ==
    IF todo = <<>> THEN done
    ELSE SortByLikelihood(Tail(todo),
                          InsertByLikelihood(Head(todo), done, likelihood),
                          likelihood)

\* lines 119-122: the cap replaces the sorted selection by a slice of the
\* refined lines; without a cap the sorted selection is returned
CapLines(sorted_lines, refined_lines, cap) ==
    IF cap # None THEN Take(refined_lines, cap[1]) ELSE sorted_lines

\* everything find_grid_lines_on_image computes for one axis
AxisLines(likelihood, cf, md, cap) ==
    LET selected == SelectLines(likelihood, cf)
        by_likelihood == SortByLikelihood(selected, <<>>, likelihood)
        refined_lines == refine_lines(SelectLines(likelihood, cf), md)
    IN  [selected |-> selected,
         refined |-> refined_lines,
         returned |-> CapLines(by_likelihood, refined_lines, cap)]

(***************************************************************************)
(* Spec: find_grid_lines_on_image on any edge image and any arguments.     *)
(***************************************************************************)
CutoffFractions == {F64(1, 2), F64(3, 5), One}
MinDistances == {0, 1}
Caps == {None, Some(1), Some(2)}

InitGrid ==
    /\ pc = "grid_start"
    /\ edges \in Images
    /\ vertical_line_likelihood = <<>>
    /\ horizontal_line_likelihood = <<>>
    /\ divisors = <<>>
    /\ cutoff_fraction = Zero
    /\ max_columns = None
    /\ max_rows = None
    /\ vertical_selected = <<>>
    /\ horizontal_selected = <<>>
    /\ vertical_refined = <<>>
    /\ horizontal_refined = <<>>
    /\ vertical_lines = <<>>
    /\ horizontal_lines = <<>>
    /\ RefineIdle
    /\ OcrIdle
    /\ LaterIdle

gridResultVars == <<cutoff_fraction, max_columns, max_rows, min_distance,
                    vertical_selected, horizontal_selected, vertical_refined,
                    horizontal_refined, vertical_lines, horizontal_lines>>

\* line 79
EstimateVertical ==
    /\ pc = "grid_start"
    /\ LET est == estimate_line_likelihood(edges, "x") IN
          /\ vertical_line_likelihood' = est.likelihood
          /\ divisors' = divisors \o est.divided_by
    /\ pc' = "grid_vertical"
    /\ UNCHANGED <<edges, horizontal_line_likelihood, gridResultVars,
                   lines, refined, ocrVars, laterVars>>

\* line 80
EstimateHorizontal ==
    /\ pc = "grid_vertical"
    /\ LET est == estimate_line_likelihood(edges, "y") IN
          /\ horizontal_line_likelihood' = est.likelihood
          /\ divisors' = divisors \o est.divided_by
    /\ pc' = "grid_estimated"
    /\ UNCHANGED <<edges, vertical_line_likelihood, gridResultVars,
                   lines, refined, ocrVars, laterVars>>

\* lines 82-124, for the arguments of the call
SelectRefineCap ==
    /\ pc = "grid_estimated"
    /\ \E cf \in CutoffFractions, md \in MinDistances, mc \in Caps, mr \in Caps :
          LET v == AxisLines(vertical_line_likelihood, cf, md, mc)
              h == AxisLines(horizontal_line_likelihood, cf, md, mr)
          IN  /\ cutoff_fraction' = cf
              /\ min_distance' = md
              /\ max_columns' = mc
              /\ max_rows' = mr
              /\ vertical_selected' = v.selected
              /\ horizontal_selected' = h.selected
              /\ vertical_refined' = v.refined
              /\ horizontal_refined' = h.refined
              /\ vertical_lines' = v.returned
              /\ horizontal_lines' = h.returned
    /\ pc' = "grid_done"
    /\ UNCHANGED <<edges, vertical_line_likelihood, horizontal_line_likelihood,
                   divisors, lines, refined, ocrVars, laterVars>>

NextGrid == EstimateVertical \/ EstimateHorizontal \/ SelectRefineCap

Spec == InitGrid /\ [][NextGrid]_vars

(***************************************************************************)
(* SpecEstimate: estimate_line_likelihood on both axes of images with more *)
(* lines per axis, where the two float divisions round.                    *)
(***************************************************************************)
InitEstimate ==
    /\ pc = "grid_start"
    /\ edges \in TallImages \cup WideImages
    /\ vertical_line_likelihood = <<>>
    /\ horizontal_line_likelihood = <<>>
    /\ divisors = <<>>
    /\ cutoff_fraction = Zero
    /\ max_columns = None
    /\ max_rows = None
    /\ vertical_selected = <<>>
    /\ horizontal_selected = <<>>
    /\ vertical_refined = <<>>
    /\ horizontal_refined = <<>>
    /\ vertical_lines = <<>>
    /\ horizontal_lines = <<>>
    /\ RefineIdle
    /\ OcrIdle
    /\ LaterIdle

NextEstimate == EstimateVertical \/ EstimateHorizontal

SpecEstimate == InitEstimate /\ [][NextEstimate]_vars

SeqMin(s) == CHOOSE m \in {s[i] : i \in DOMAIN s} : \A i \in DOMAIN s : m <= s[i]
SeqMax(s) == CHOOSE m \in {s[i] : i \in DOMAIN s} : \A i \in DOMAIN s : m >= s[i]
AbsDiff(a, b) == IF a >= b THEN a - b ELSE b - a

\* C1: any two entries at distinct positions of refine_lines(lines, d), d >= 0,
\* differ by more than d.
C1_RefinedApart ==
    pc = "refine_done" =>
        \A i, j \in DOMAIN refined :
            i # j => AbsDiff(refined[i], refined[j]) > min_distance

\* C1 witness: a call that merged two close lines and kept a distant one apart
C1_Witness ==
    /\ pc = "refine_done"
    /\ min_distance > 0
    /\ Len(refined) >= 2
    /\ Len(refined) < Len(lines)

\* C2: every value refine_lines returns lies in [min(lines), max(lines)], the
\* output is no longer than the input, and an empty input gives an empty output.
C2_RefinedInRange ==
    pc = "refine_done" =>
        /\ Len(refined) <= Len(lines)
        /\ lines = <<>> => refined = <<>>
        /\ lines # <<>> =>
              \A i \in DOMAIN refined :
                  SeqMin(lines) <= refined[i] /\ refined[i] <= SeqMax(lines)

\* C2 witness: a merged group of negative coordinates whose mean is not whole
C2_Witness ==
    /\ pc = "refine_done"
    /\ Len(lines) >= 2
    /\ Len(refined) = 1
    /\ SumSeq(lines) < 0
    /\ SumSeq(lines) % Len(lines) # 0

(***************************************************************************)
(* Properties of find_grid_lines_on_image (Spec).                          *)
(***************************************************************************)
SeqSet(s) == {s[i] : i \in DOMAIN s}
PairwiseApart(s, d) ==
    \A i, j \in DOMAIN s : i # j => AbsDiff(s[i], s[j]) > d
StrictlyIncreasing(s) == \A i \in 1..(Len(s) - 1) : s[i] < s[i + 1]

\* the number of non-zero pixels of column x / row y, counted on the image
ColumnCount(x) == Cardinality({r \in 1..Len(edges) : edges[r][x + 1] # 0})
RowCount(y) == Cardinality({c \in 1..Len(edges[1]) : edges[y + 1][c] # 0})
MaxColumnCount ==
    CHOOSE m \in {ColumnCount(x) : x \in 0..(Len(edges[1]) - 1)} :
        \A x \in 0..(Len(edges[1]) - 1) : m >= ColumnCount(x)
MaxRowCount ==
    CHOOSE m \in {RowCount(y) : y \in 0..(Len(edges) - 1)} :
        \A y \in 0..(Len(edges) - 1) : m >= RowCount(y)
NoEdges == \A r \in 1..Len(edges), c \in 1..Len(edges[1]) : edges[r][c] = 0

\* C3: for every cap setting, None included, no two returned vertical lines
\* and no two returned horizontal lines are within min_distance of each other.
C3_ReturnedLinesMerged ==
    pc = "grid_done" =>
        /\ PairwiseApart(vertical_lines, min_distance)
        /\ PairwiseApart(horizontal_lines, min_distance)

\* the likelihood of the refined lines a cap keeps and discards
KeepsMostLikely(returned, refined_lines, likelihood, k) ==
    /\ Len(returned) = k
    /\ \A kept \in SeqSet(returned) :
          \A dropped \in SeqSet(refined_lines) \ SeqSet(returned) :
              ~F64Gt(likelihood[dropped + 1], likelihood[kept + 1])

\* C4: with a cap k and more than k lines detected, the k lines kept are the
\* most likely ones: no discarded line is strictly more likely than a kept one.
C4_CapKeepsMostLikely ==
    pc = "grid_done" =>
        /\ (max_columns # None /\ Len(vertical_refined) > max_columns[1]) =>
              KeepsMostLikely(vertical_lines, vertical_refined,
                              vertical_line_likelihood, max_columns[1])
        /\ (max_rows # None /\ Len(horizontal_refined) > max_rows[1]) =>
              KeepsMostLikely(horizontal_lines, horizontal_refined,
                              horizontal_line_likelihood, max_rows[1])

\* C5: both returned sequences are in strictly increasing coordinate order,
\* for every input and every cap setting.
C5_ReturnedIncreasing ==
    pc = "grid_done" =>
        /\ StrictlyIncreasing(vertical_lines)
        /\ StrictlyIncreasing(horizontal_lines)

\* C6: a cap at least as large as the number of detected lines returns what
\* the same call returns with no cap.
C6_LargeCapIsNoOp ==
    pc = "grid_done" =>
        /\ (max_columns # None /\ max_columns[1] >= Len(vertical_selected)) =>
              vertical_lines =
                  AxisLines(vertical_line_likelihood, cutoff_fraction,
                            min_distance, None).returned
        /\ (max_rows # None /\ max_rows[1] >= Len(horizontal_selected)) =>
              horizontal_lines =
                  AxisLines(horizontal_line_likelihood, cutoff_fraction,
                            min_distance, None).returned

\* every entry is in [0, 1], and the largest is 1 when a line has an edge pixel
InUnitRange(likelihood, maxcount) ==
    /\ \A i \in DOMAIN likelihood :
          F64Geq(likelihood[i], Zero) /\ F64Geq(One, likelihood[i])
    /\ maxcount > 0 => \E i \in DOMAIN likelihood : likelihood[i] = One
    /\ maxcount > 0 => F64Max(likelihood) = One

\* entry i is the float count / largest count
CountsOverLargest(likelihood, count(_), maxcount) ==
    maxcount > 0 =>
        \A i \in DOMAIN likelihood : likelihood[i] = F64(count(i - 1), maxcount)

\* entry i is the float (count / size) / (largest count / size), where size
\* is the number of pixels of a line
FractionsOverLargest(likelihood, count(_), maxcount, size) ==
    maxcount > 0 =>
        \A i \in DOMAIN likelihood :
            likelihood[i] = F64Div(F64(count(i - 1), size), F64(maxcount, size))

\* C7 as stated: every entry of estimate_line_likelihood is in [0, 1] and
\* equals the count of non-zero pixels of its line divided by the largest
\* such count; the largest entry is 1 when the image has a non-zero pixel.
C7_LikelihoodNormalised ==
    /\ pc = "grid_vertical" =>
          /\ Len(vertical_line_likelihood) = Len(edges[1])
          /\ InUnitRange(vertical_line_likelihood, MaxColumnCount)
          /\ CountsOverLargest(vertical_line_likelihood, ColumnCount, MaxColumnCount)
    /\ pc = "grid_estimated" =>
          /\ Len(horizontal_line_likelihood) = Len(edges)
          /\ InUnitRange(horizontal_line_likelihood, MaxRowCount)
          /\ CountsOverLargest(horizontal_line_likelihood, RowCount, MaxRowCount)

\* C7 amended: every entry of estimate_line_likelihood is in [0, 1] and
\* equals the fraction of non-zero pixels of its line divided by the largest
\* such fraction, both divisions rounded to a float; the largest entry is 1
\* when the image has a non-zero pixel.
C7_LikelihoodIsFractionOverLargest ==
    /\ pc = "grid_vertical" =>
          /\ Len(vertical_line_likelihood) = Len(edges[1])
          /\ InUnitRange(vertical_line_likelihood, MaxColumnCount)
          /\ FractionsOverLargest(vertical_line_likelihood, ColumnCount,
                                  MaxColumnCount, Len(edges))
    /\ pc = "grid_estimated" =>
          /\ Len(horizontal_line_likelihood) = Len(edges)
          /\ InUnitRange(horizontal_line_likelihood, MaxRowCount)
          /\ FractionsOverLargest(horizontal_line_likelihood, RowCount,
                                  MaxRowCount, Len(edges[1]))

\* C7 witness: columns with 1 and 3 edge pixels of 5, where (1/5) / (3/5)
\* is not the float 1/3
C7_Witness ==
    /\ pc = "grid_estimated"
    /\ ColumnCount(0) = 1
    /\ MaxColumnCount = 3
    /\ vertical_line_likelihood[1] # F64(1, 3)
    /\ F64Gt(vertical_line_likelihood[1], Zero)
    /\ F64Gt(One, vertical_line_likelihood[1])
    /\ Len(divisors) = 2

\* C8: an image without edge pixels gives all-zero likelihoods on both axes
\* and no division by the maximum is made.
C8_NoEdgesNoDivision ==
    (pc \in {"grid_vertical", "grid_estimated", "grid_done"} /\ NoEdges) =>
        /\ divisors = <<>>
        /\ \A i \in DOMAIN vertical_line_likelihood :
              vertical_line_likelihood[i] = Zero
        /\ pc # "grid_vertical" =>
              /\ Len(horizontal_line_likelihood) = ImgHeight
              /\ \A i \in DOMAIN horizontal_line_likelihood :
                    horizontal_line_likelihood[i] = Zero

\* C8 witness: both axes of an image without edges have been estimated
C8_Witness ==
    /\ pc = "grid_estimated"
    /\ NoEdges
    /\ Len(vertical_line_likelihood) = ImgWidth
    /\ Len(horizontal_line_likelihood) = ImgHeight

\* the coordinates selected are those whose likelihood stands in relation
\* above(_, _) to cutoff_fraction times the largest likelihood
SelectedAre(selected, likelihood, above(_, _)) ==
    \A x \in 0..(Len(likelihood) - 1) :
        x \in SeqSet(selected) <=>
            above(likelihood[x + 1], Cutoff(likelihood, cutoff_fraction))

\* C9 as stated: a coordinate is selected exactly when its likelihood exceeds
\* cutoff_fraction times the maximum likelihood of its axis.
C9_SelectedIffAboveCutoff ==
    pc = "grid_done" =>
        /\ SelectedAre(vertical_selected, vertical_line_likelihood, F64Gt)
        /\ SelectedAre(horizontal_selected, horizontal_line_likelihood, F64Gt)

\* C9 amended: a coordinate is selected exactly when its likelihood is at
\* least cutoff_fraction times the maximum likelihood of its axis; one
\* strictly below the cutoff is not selected.
C9_SelectedIffAtLeastCutoff ==
    pc = "grid_done" =>
        /\ SelectedAre(vertical_selected, vertical_line_likelihood, F64Geq)
        /\ SelectedAre(horizontal_selected, horizontal_line_likelihood, F64Geq)

\* C9 witness: a column exactly at the cutoff is selected, one below is not
C9_Witness ==
    /\ pc = "grid_done"
    /\ \E x \in SeqSet(vertical_selected) :
          vertical_line_likelihood[x + 1] =
              Cutoff(vertical_line_likelihood, cutoff_fraction)
    /\ \E x \in 0..(ImgWidth - 1) :
          /\ x \notin SeqSet(vertical_selected)
          /\ F64Gt(vertical_line_likelihood[x + 1], Zero)

(***************************************************************************)
(* cuda_ocr.py.  A text is a sequence of characters.  A page of the        *)
(* document carries what EasyOCR does with it: raises, or ocr_results.     *)
(***************************************************************************)
NL == "\n"

\* sep.join(parts)
RECURSIVE Join(_, _)
Join(parts, sep) ==
    IF parts = <<>> THEN <<>>
    ELSE IF Len(parts) = 1 THEN Head(parts)
    ELSE Head(parts) \o sep \o Join(Tail(parts), sep)

OcrResults == {<<>>, <<<<"a">>>>, <<<<"a">>, <<"b", "c">>>>}
Pages == [raises : {TRUE}, ocr_results : {<<>>}]
             \cup [raises : {FALSE}, ocr_results : OcrResults]

\* lines 73-77: "\n".join(reader.readtext(...))
perform_ocr_on_page(page) == Join(page.ocr_results, <<NL>>)

\* line 84: print(f"Pages {len(doc)}")
PagesLine(n) == <<"Pages", ToStr(n)>>

\* line 86: print(f"Processing page {page_num:04}")
ProcessingLine(n) == <<"Processing page", ZeroPad(ToStr(n), 4)>>

\* line 95: print(f"An error occurred while processing page {page_num:04}: {e}")
ErrorLine(n) == <<"An error occurred while processing page", ZeroPad(ToStr(n), 4)>>

\* mutant: the loop is left at the first page that fails
AfterExceptBreak == "ocr_return"

\* lines 94-97: the except clause prints and the loop goes on
AfterExcept == "ocr_loop"

InitOcr ==
    /\ pc = "ocr_open"
    /\ doc \in SeqsUpTo(Pages, MaxPages)
    /\ page_num = 0
    /\ full_text = <<>>
    /\ printed = <<>>
    /\ processed = <<>>
    /\ extracted_text = <<>>
    /\ RefineIdle
    /\ GridIdle
    /\ LaterIdle

\* lines 82-84: the document is opened and its page count printed
OcrOpen ==
    /\ pc = "ocr_open"
    /\ printed' = Append(printed, PagesLine(Len(doc)))
    /\ pc' = "ocr_loop"
    /\ UNCHANGED <<doc, page_num, full_text, processed, extracted_text,
                   refineVars, gridVars, laterVars>>

\* lines 85-93: an iteration whose try block completes
OcrPageSucceeds ==
    /\ pc = "ocr_loop"
    /\ page_num < Len(doc)
    /\ ~doc[page_num + 1].raises
    /\ page_num' = page_num + 1
    /\ processed' = Append(processed, page_num + 1)
    /\ printed' = Append(printed, ProcessingLine(page_num + 1))
    /\ full_text' = Append(full_text, perform_ocr_on_page(doc[page_num + 1]))
    /\ pc' = "ocr_loop"
    /\ UNCHANGED <<doc, extracted_text, refineVars, gridVars, laterVars>>

\* lines 85-97: an iteration whose try block raises
OcrPageFails ==
    /\ pc = "ocr_loop"
    /\ page_num < Len(doc)
    /\ doc[page_num + 1].raises
    /\ page_num' = page_num + 1
    /\ processed' = Append(processed, page_num + 1)
    /\ printed' = printed \o <<ProcessingLine(page_num + 1), ErrorLine(page_num + 1)>>
    /\ pc' = AfterExcept
    /\ UNCHANGED <<doc, full_text, extracted_text, refineVars, gridVars, laterVars>>

\* line 99, when the loop is over
OcrReturn ==
    /\ \/ pc = "ocr_loop" /\ page_num = Len(doc)
       \/ pc = "ocr_return"
    /\ extracted_text' = Join(full_text, <<NL, NL>>)
    /\ pc' = "ocr_done"
    /\ UNCHANGED <<doc, page_num, full_text, printed, processed,
                   refineVars, gridVars, laterVars>>

NextOcr == OcrOpen \/ OcrPageSucceeds \/ OcrPageFails \/ OcrReturn

SpecOcr == InitOcr /\ [][NextOcr]_vars

\* the pages of d that raise / do not raise, in increasing page order
RECURSIVE PagesWhere(_, _, _)
PagesWhere(d, n, raising) ==
    IF n = 0 THEN <<>>
    ELSE PagesWhere(d, n - 1, raising)
         \o (IF d[n].raises = raising THEN <<n>> ELSE <<>>)

\* C10: whatever pages fail, each failing page is logged and skipped, every
\* page is still processed, and the returned text is the texts of the
\* successful pages joined in increasing page order.
C10_FailedPagesSkipped ==
    pc = "ocr_done" =>
        LET good == PagesWhere(doc, Len(doc), FALSE) IN
        /\ processed = [n \in 1..Len(doc) |-> n]
        /\ SelectSeq(printed, LAMBDA line : line[1] = ErrorLine(1)[1])
              = [k \in 1..Len(PagesWhere(doc, Len(doc), TRUE)) |->
                    ErrorLine(PagesWhere(doc, Len(doc), TRUE)[k])]
        /\ extracted_text =
              Join([k \in 1..Len(good) |-> Join(doc[good[k]].ocr_results, <<NL>>)],
                   <<NL, NL>>)

\* C10 witness: a failing page between two pages with text
C10_Witness ==
    /\ pc = "ocr_done"
    /\ \E i, j, k \in DOMAIN doc :
          /\ i < j /\ j < k
          /\ ~doc[i].raises /\ doc[i].ocr_results # <<>>
          /\ doc[j].raises
          /\ ~doc[k].raises /\ doc[k].ocr_results # <<>>

(***************************************************************************)
(* pdf_cutter.py.  A PDF is the sequence of its page numbers; a data frame *)
(* is the sequence of its rows, each with its index label.  The Page of a  *)
(* row is Some(number), or None for the nan that pd.to_numeric makes of an *)
(* empty or non-numeric cell.                                              *)
(***************************************************************************)
MaxPdfPages == 4     \* pdf_cutter: pages of the source PDF
MaxRows == 3         \* pdf_cutter: rows of the Excel file

DocNames == <<"A", "B", "C", "D", "E">>

\* the Excel files: row i is named DocNames[i], the numeric start pages are
\* distinct
ExcelFilesOf(k) ==
    {[i \in 1..k |-> [DocumentID |-> DocNames[i], Page |-> f[i]]] :
        f \in {g \in [1..k -> {None} \cup {Some(p) : p \in 1..MaxPdfPages}] :
                  \A a, b \in 1..k : (a # b /\ g[a] # None) => g[a] # g[b]}}
ExcelFiles == UNION {ExcelFilesOf(k) : k \in 1..MaxRows}

\* pages[a:b] of a PDF with n pages, 0 <= a
PageSlice(n, a, b) ==
    LET hi == IF b < n THEN b ELSE n
    IN  IF hi <= a THEN <<>> ELSE [i \in 1..(hi - a) |-> a + i]

\* pd.isna of a Page
IsNa(page) == page = None

\* df.sort_values(by="Page"): rows in Page order, the rows without a number
\* last, each keeping its label
RECURSIVE InsertByPage(_, _)
InsertByPage(row, s) ==
    IF s = <<>> THEN <<row>>
    ELSE IF ~IsNa(row.Page) /\ (IsNa(Head(s).Page) \/ row.Page[1] < Head(s).Page[1])
         THEN <<row>> \o s
    ELSE <<Head(s)>> \o InsertByPage(row, Tail(s))

RECURSIVE SortByPage(_, _)
SortByPage(todo, done) ==
    IF todo = <<>> THEN done
    ELSE SortByPage(Tail(todo), InsertByPage(Head(todo), done))

\* lines 49-53: read_excel gives row i of the file the label i - 1
load_mappings(rows) ==
    SortByPage([i \in 1..Len(rows) |->
                   [index |-> i - 1, DocumentID |-> rows[i].DocumentID,
                    Page |-> rows[i].Page]],
               <<>>)

\* lines 74-78: mappings["Page"].iloc[index + 1] is positional, `index` is
\* the label iterrows() yields
EndPage(df, index, n) ==
    IF index + 1 < Len(df) THEN df[index + 2].Page ELSE Some(n + 1)

\* line 98: mappings["Page"].max() skips nan; nan when there is no number
MaxPage(df) ==
    LET numbers == {df[i].Page[1] : i \in {j \in DOMAIN df : ~IsNa(df[j].Page)}}
    IN  IF numbers = {} THEN None
        ELSE Some(CHOOSE m \in numbers : \A q \in numbers : m >= q)

\* the Page column holds floats as soon as one of its cells is nan
FloatColumn(df) == \E i \in DOMAIN df : IsNa(df[i].Page)

PdfPath(name) == <<name, ".pdf">>

\* a file written anew: an existing file of that path is replaced
WriteFile(files, path, content) ==
    {f \in files : f.path # path} \cup {[path |-> path, content |-> content]}

InitCut ==
    /\ pc = "cut_start"
    /\ excel_rows \in ExcelFiles
    /\ num_pages \in 1..MaxPdfPages
    /\ mappings = <<>>
    /\ row_pos = 0
    /\ EnvIdle
    /\ FirstIdle
    /\ NerIdle
    /\ DocIdle /\ MainIdle /\ ChunkIdle /\ GetIdle /\ ExcelIdle

cutRest == <<firstVars, nerVars,
    docVars, mainVars, chunkVars, getVars, excelVars>>

\* lines 95-104: load the mappings, open the PDF, check its length
CutLoad ==
    /\ pc = "cut_start"
    /\ mappings' = load_mappings(excel_rows)
    /\ LET max_page == MaxPage(load_mappings(excel_rows)) IN
          IF ~IsNa(max_page) /\ num_pages < max_page[1]
          THEN pc' = "cut_error" /\ exit_status' = Some(1)
          ELSE pc' = "cut_preface" /\ UNCHANGED exit_status
    /\ UNCHANGED <<excel_rows, num_pages, row_pos, fs, stdout, http_log, cutRest>>

\* lines 66-70, the first page is 1, or the column holds integers
CutPreface ==
    /\ pc = "cut_preface"
    /\ mappings[1].Page = Some(1) \/ ~FloatColumn(mappings)
    /\ IF mappings[1].Page # Some(1)
       THEN /\ fs' = WriteFile(fs, PdfPath("preface"),
                               PageSlice(num_pages, 0, mappings[1].Page[1] - 1))
            /\ stdout' = Append(stdout, <<"Created", PdfPath("preface")>>)
       ELSE UNCHANGED <<fs, stdout>>
    /\ pc' = "cut_loop"
    /\ UNCHANGED <<cutVars, exit_status, http_log, cutRest>>

\* lines 66-68 when the column holds floats and its first page is not 1.0
\* (nan != 1 too): the slice bound `Page - 1` is a float, and the slice of
\* input_pdf.pages raises TypeError, which nothing catches
CutPrefaceFloat ==
    /\ pc = "cut_preface"
    /\ mappings[1].Page # Some(1) /\ FloatColumn(mappings)
    /\ pc' = "cut_error"
    /\ exit_status' = Some(1)
    /\ UNCHANGED <<cutVars, fs, stdout, http_log, cutRest>>

\* lines 73-87: the pages put into output_pdf for a row with a start page
RowPages(df, row, n) ==
    LET next_page == EndPage(df, row.index, n)
        end_page == IF IsNa(next_page) THEN n + 1 ELSE next_page[1]
    IN  PageSlice(n, row.Page[1] - 1, end_page - 1)

\* lines 72-90: one iteration of the loop over mappings.iterrows(); a row
\* without a start page is passed over, a row with pages is saved
CutRow ==
    /\ pc = "cut_loop"
    /\ row_pos < Len(mappings)
    /\ LET row == mappings[row_pos + 1]
       IN  IF IsNa(row.Page)
           THEN UNCHANGED <<fs, stdout>>
           ELSE /\ RowPages(mappings, row, num_pages) # <<>>
                /\ fs' = WriteFile(fs, PdfPath(row.DocumentID),
                                   RowPages(mappings, row, num_pages))
                /\ stdout' = Append(stdout, <<"Created", PdfPath(row.DocumentID)>>)
    /\ row_pos' = row_pos + 1
    /\ UNCHANGED <<pc, excel_rows, num_pages, mappings, exit_status, http_log,
                   cutRest>>

\* lines 72-89 when the slice of line 87 is empty (the end page is not
\* behind the start page): save(linearize=True) of a PDF without pages
\* raises PdfError ("no pages found while calculating linearization data"),
\* which nothing catches; no file is left and nothing is printed
CutRowSaveRaises ==
    /\ pc = "cut_loop"
    /\ row_pos < Len(mappings)
    /\ LET row == mappings[row_pos + 1]
       IN  /\ ~IsNa(row.Page)
           /\ RowPages(mappings, row, num_pages) = <<>>
    /\ pc' = "cut_error"
    /\ exit_status' = Some(1)
    /\ UNCHANGED <<cutVars, fs, stdout, http_log, cutRest>>

\* the loop is over
CutDone ==
    /\ pc = "cut_loop"
    /\ row_pos = Len(mappings)
    /\ pc' = "cut_done"
    /\ UNCHANGED <<cutVars, envVars, cutRest>>

NextCut ==
    \/ CutLoad \/ CutPreface \/ CutPrefaceFloat
    \/ CutRow \/ CutRowSaveRaises \/ CutDone

SpecCut == InitCut /\ [][NextCut]_vars

(***************************************************************************)
(* SpecSave: save_pages, lines 56-61, which no function of the file calls. *)
(* A writer is the sequence of the pages it holds.                         *)
(***************************************************************************)
PdfWriters == {PageSlice(MaxPdfPages, a, b) : a, b \in 0..MaxPdfPages}

InitSave ==
    /\ pc = "save_start"
    /\ fs \in {{}} \cup {{[path |-> PdfPath(DocNames[i]), content |-> w]} :
                          i \in 1..MaxRows, w \in PdfWriters}
    /\ stdout = <<>>
    /\ exit_status = None
    /\ http_log = <<>>
    /\ CutIdle
    /\ FirstIdle
    /\ NerIdle
    /\ DocIdle /\ MainIdle /\ ChunkIdle /\ GetIdle /\ ExcelIdle

\* lines 58-61: the file is written, replacing one of that name, and reported
save_pages ==
    /\ pc = "save_start"
    /\ \E pdf_writer \in PdfWriters, i \in 1..MaxRows :
          LET output_filename == PdfPath(DocNames[i]) IN
          /\ fs' = WriteFile(fs, output_filename, pdf_writer)
          /\ stdout' = Append(stdout, <<"Created", output_filename>>)
    /\ pc' = "save_done"
    /\ UNCHANGED <<cutVars, exit_status, http_log, cutRest>>

SpecSave == InitSave /\ [][save_pages]_vars

\* the content of the file at `path`, <<"absent">> if there is none
FileAt(path) ==
    IF \E f \in fs : f.path = path
    THEN (CHOOSE f \in fs : f.path = path).content
    ELSE <<"absent">>

AllPagesNumeric == \A i \in DOMAIN excel_rows : ~IsNa(excel_rows[i].Page)
StartPages ==
    {excel_rows[i].Page[1] : i \in {j \in DOMAIN excel_rows : ~IsNa(excel_rows[j].Page)}}
FirstStart == CHOOSE p \in StartPages : \A q \in StartPages : p <= q
\* the start page following p, or the page after the last one
NextStart(p) ==
    IF \E q \in StartPages : q > p
    THEN CHOOSE q \in StartPages : q > p /\ \A r \in StartPages : r > p => q <= r
    ELSE num_pages + 1
PageRange(a, b) == [i \in 1..(b - a + 1) |-> a + i - 1]
TimesWritten(page) ==
    Cardinality({f \in fs : \E i \in DOMAIN f.content : f.content[i] = page})

\* the PDF has the pages the Excel file asks for (the check of lines 99-104)
EnoughPages == \A p \in StartPages : p <= num_pages

\* C11: whatever the order of the rows, when the run has ended each
\* DocumentID has got exactly the pages from its start page up to the page
\* before the next larger start page (the last segment runs to the end), the
\* pages before the smallest start page have gone to preface.pdf, and every
\* source page has landed in exactly one output.
C11_SegmentsCutByStartPage ==
    (pc \in {"cut_done", "cut_error"} /\ AllPagesNumeric /\ EnoughPages) =>
        /\ \A i \in DOMAIN excel_rows :
              FileAt(PdfPath(excel_rows[i].DocumentID)) =
                  PageRange(excel_rows[i].Page[1], NextStart(excel_rows[i].Page[1]) - 1)
        /\ FirstStart > 1 =>
              FileAt(PdfPath("preface")) = PageRange(1, FirstStart - 1)
        /\ \A page \in 1..num_pages : TimesWritten(page) = 1

(***************************************************************************)
(* find_document_number.py.  A string is a sequence of characters.         *)
(***************************************************************************)
MaxDocPages == 3     \* extract_pdf_data: pages of the PDF
MaxIds == 3          \* analyse: entries of output_data

\* the characters of the model in code point order
CharOrder == <<" ", "0", "1", "2", "3", "4", "5", "6", "7", "8", "9",
               "A", "B", "a", "b", "x">>
Ord(c) == CHOOSE i \in DOMAIN CharOrder : CharOrder[i] = c

IsDigit(c) == \E i \in DOMAIN DigitChars : DigitChars[i] = c
IsLetter(c) == c \in {"A", "B", "a", "b", "x"}
DigitValue(c) == (CHOOSE i \in DOMAIN DigitChars : DigitChars[i] = c) - 1

\* the length of the longest run of characters of class `digits` (TRUE) or
\* letters (FALSE) that starts at s[i]
RECURSIVE RunLength(_, _, _)
RunLength(s, i, digits) ==
    IF i > Len(s) THEN 0
    ELSE IF (digits /\ IsDigit(s[i])) \/ (~digits /\ IsLetter(s[i]))
         THEN 1 + RunLength(s, i + 1, digits)
         ELSE 0

\* the match of r"\d+[A-Za-z]*" that starts at s[i], s[i] a digit
IdAt(s, i) ==
    LET d == RunLength(s, i, TRUE)
        l == RunLength(s, i + d, FALSE)
    IN  SubSeq(s, i, i + d + l - 1)

\* re.search(r"\d+[A-Za-z]*", text): None or the leftmost match
SearchId(s) ==
    IF \E i \in DOMAIN s : IsDigit(s[i])
    THEN Some(IdAt(s, CHOOSE i \in DOMAIN s :
                         IsDigit(s[i]) /\ \A j \in 1..(i - 1) : ~IsDigit(s[j])))
    ELSE None

\* int() of a string of digits
RECURSIVE ToInt(_)
ToInt(digits) ==
    IF digits = <<>> THEN 0
    ELSE 10 * ToInt(SubSeq(digits, 1, Len(digits) - 1)) + DigitValue(Last(digits))

\* lines 145-169: re.match(r"\d+", id), the leading digits of an ID as a
\* number; None when the ID does not start with a digit
extract_number(id) ==
    IF RunLength(id, 1, TRUE) > 0
    THEN Some(ToInt(SubSeq(id, 1, RunLength(id, 1, TRUE))))
    ELSE None

\* re.match(r"(\d+)([A-Za-z]*)", doc_id).groups()
IdGroups(id) ==
    LET d == RunLength(id, 1, TRUE)
    IN  <<SubSeq(id, 1, d), SubSeq(id, d + 1, d + RunLength(id, d + 1, FALSE))>>

\* mutant: the bounds are exclusive
InRangeExclusive(number, lo, hi) == lo < number /\ number < hi

\* lines 205, 215: `minumum <= number <= maximum`
InRange(number, lo, hi) == lo <= number /\ number <= hi

\* the text found inside the viewbox of a page, and what OCR may read there
ViewboxTexts == {<<>>, <<"x">>, <<"1">>, <<"2", "a">>, <<"x", "3", " ">>,
                 <<"1", "2">>}
OcrTexts == {<<>>, <<"3", "b", " ", "1">>, <<"1", "2">>}
Minimums == {1, 2}
Maximums == {3, 12}

InitExtract ==
    /\ pc = "extract_loop"
    /\ pdf_texts \in SeqsUpTo(ViewboxTexts, MaxDocPages)
    /\ dump \in BOOLEAN
    /\ minimum \in Minimums
    /\ maximum \in Maximums
    /\ page_number = 0
    /\ ocr_consulted = {}
    /\ output_data = <<>>
    /\ analyse_flag = FALSE
    /\ output_file = None
    /\ id_pos = 0
    /\ prev_id = <<>>
    /\ first = TRUE
    /\ out_of_order_ids = <<>>
    /\ missing_ids = <<>>
    /\ EnvIdle
    /\ FirstIdle
    /\ NerIdle
    /\ CutIdle /\ MainIdle /\ ChunkIdle /\ GetIdle /\ ExcelIdle

docRest == <<firstVars, nerVars,
    cutVars, mainVars, chunkVars, getVars, excelVars>>
analyseVars == <<analyse_flag, output_file, id_pos, prev_id, first,
                 out_of_order_ids, missing_ids>>

\* lines 202-207 and 212-219: an ID found on the page in `found`
AppendIfInRange(found, page) ==
    IF found # None /\ InRange(extract_number(found[1])[1], minimum, maximum)
    THEN /\ output_data' = Append(output_data, <<found[1], page>>)
         /\ stdout' = Append(stdout, <<"Document", found[1], page>>)
    ELSE UNCHANGED <<output_data, stdout>>

\* lines 87-89 of extract_text_from_pdf: with --dump the clip of the page is
\* saved as <page_number:04d>.png
DumpPage(files, page) ==
    IF dump
    THEN WriteFile(files, ZeroPad(ToStr(page), 4) \o <<".png">>, <<"pixmap", page>>)
    ELSE files

\* lines 198-207: a page whose text holds an ID
ExtractPageDirect ==
    /\ pc = "extract_loop"
    /\ page_number < Len(pdf_texts)
    /\ SearchId(pdf_texts[page_number + 1]) # None
    /\ fs' = DumpPage(fs, page_number)
    /\ AppendIfInRange(SearchId(pdf_texts[page_number + 1]), page_number + 1)
    /\ page_number' = page_number + 1
    /\ UNCHANGED <<pc, pdf_texts, dump, minimum, maximum, ocr_consulted,
                   analyseVars, exit_status, http_log, docRest>>

\* lines 198-201, 208-219: a page whose text holds no ID is read by OCR
ExtractPageOcr ==
    /\ pc = "extract_loop"
    /\ page_number < Len(pdf_texts)
    /\ SearchId(pdf_texts[page_number + 1]) = None
    /\ fs' = DumpPage(fs, page_number)
    /\ \E ocr_text \in OcrTexts :
          AppendIfInRange(SearchId(ocr_text), page_number + 1)
    /\ ocr_consulted' = ocr_consulted \cup {page_number + 1}
    /\ page_number' = page_number + 1
    /\ UNCHANGED <<pc, pdf_texts, dump, minimum, maximum, analyseVars,
                   exit_status, http_log, docRest>>

\* lines 220-223: an exception on a page ends the loop; it is raised before
\* the page is dumped or after, and before extract_text_from_image is called
ExtractRaises ==
    /\ pc = "extract_loop"
    /\ page_number < Len(pdf_texts)
    /\ \E dumped \in {FALSE, dump} :
          fs' = IF dumped THEN DumpPage(fs, page_number) ELSE fs
    /\ stdout' = Append(stdout, <<"An error occurred">>)
    /\ pc' = "extract_done"
    /\ UNCHANGED <<pdf_texts, dump, minimum, maximum, page_number, ocr_consulted,
                   output_data, analyseVars, exit_status, http_log, docRest>>

\* lines 208-210 and 220-223: extract_text_from_image itself raises (line 70,
\* rc.stdout.decode(), or subprocess.run), on a page whose text holds no ID;
\* the page has been handed to it
ExtractOcrRaises ==
    /\ pc = "extract_loop"
    /\ page_number < Len(pdf_texts)
    /\ SearchId(pdf_texts[page_number + 1]) = None
    /\ fs' = DumpPage(fs, page_number)
    /\ ocr_consulted' = ocr_consulted \cup {page_number + 1}
    /\ stdout' = Append(stdout, <<"An error occurred">>)
    /\ pc' = "extract_done"
    /\ UNCHANGED <<pdf_texts, dump, minimum, maximum, page_number, output_data,
                   analyseVars, exit_status, http_log, docRest>>

\* line 223, after the last page
ExtractReturn ==
    /\ pc = "extract_loop"
    /\ page_number = Len(pdf_texts)
    /\ pc' = "extract_done"
    /\ UNCHANGED <<docVars, envVars, docRest>>

NextExtract ==
    \/ ExtractPageDirect \/ ExtractPageOcr \/ ExtractRaises \/ ExtractOcrRaises
    \/ ExtractReturn

SpecExtract == InitExtract /\ [][NextExtract]_vars

\* the pages of output_data
PagesOf(od) == [i \in DOMAIN od |-> od[i][2]]

\* C13: at most one (document_id, page) pair per page, 1-based pages in
\* strictly increasing order; the ID found in a page's text is included
\* exactly when minimum <= n <= maximum for its leading number n; OCR is
\* consulted only for pages whose text holds no ID.
C13_OnePairPerPageInRange ==
    /\ StrictlyIncreasing(PagesOf(output_data))
    /\ \A i \in DOMAIN output_data :
          /\ output_data[i][2] \in 1..page_number
          /\ minimum <= extract_number(output_data[i][1])[1]
          /\ extract_number(output_data[i][1])[1] <= maximum
    /\ \A p \in 1..page_number :
          SearchId(pdf_texts[p]) # None =>
              /\ p \notin ocr_consulted
              /\ LET id == SearchId(pdf_texts[p])[1] IN
                    (\E i \in DOMAIN output_data : output_data[i] = <<id, p>>)
                        <=> (minimum <= ToInt(SubSeq(id, 1, RunLength(id, 1, TRUE)))
                             /\ ToInt(SubSeq(id, 1, RunLength(id, 1, TRUE))) <= maximum)
    /\ \A p \in ocr_consulted : SearchId(pdf_texts[p]) = None

\* C13 witness: an ID read by OCR, an ID left out for its number, and an ID
\* at the maximum, all in one run
C13_Witness ==
    /\ pc = "extract_done"
    /\ page_number = 3
    /\ Len(output_data) = 2
    /\ \E i \in DOMAIN output_data : output_data[i][2] \in ocr_consulted
    /\ \E i \in DOMAIN output_data :
          extract_number(output_data[i][1])[1] = maximum
    /\ \E p \in 1..3 :
          /\ SearchId(pdf_texts[p]) # None
          /\ \A i \in DOMAIN output_data : output_data[i][2] # p

(***************************************************************************)
(* find_document_number.main after extract_pdf_data has returned, and      *)
(* analyse.                                                                *)
(***************************************************************************)
DefaultMinimum == 1
DefaultMaximum == 99999999

\* lines 385-390: `if not minimum: minimum = 1`, and so for maximum
OrDefault(arg, default) ==
    IF arg = None \/ arg[1] = 0 THEN default ELSE arg[1]

ArgMinimums == {None, Some(0), Some(2)}
ArgMaximums == {Some(3), Some(5)}
ArgOutputFiles == {None, Some(<<"ids", ".xlsx">>)}
AnalyseIds == {<<"1">>, <<"2">>, <<"2", "a">>, <<"2", "b">>, <<"3">>, <<"4">>}

\* what extract_pdf_data can return for the range lo..hi: IDs in the range,
\* on increasing pages
ExtractedData(lo, hi) ==
    LET ids == {id \in AnalyseIds : InRange(extract_number(id)[1], lo, hi)}
    IN  {[i \in DOMAIN s |-> <<s[i], i>>] : s \in SeqsUpTo(ids, MaxIds)}

\* a > b for Python strings
RECURSIVE StrGt(_, _)
StrGt(a, b) ==
    IF a = <<>> THEN FALSE
    ELSE IF b = <<>> THEN TRUE
    ELSE IF Head(a) # Head(b) THEN Ord(Head(a)) > Ord(Head(b))
    ELSE StrGt(Tail(a), Tail(b))

\* lines 270-271: f"{missing_numeric}{letter_part}" over range(a, b)
MissingRange(a, b, letter_part) ==
    IF b <= a THEN <<>> ELSE [i \in 1..(b - a) |-> ToStr(a + i - 1) \o letter_part]

\* mutant: the letters are not looked at
IsOutOfOrderNumbersOnly(numeric_part, letter_part, prev_numeric, prev_letter) ==
    \/ numeric_part > maximum
    \/ numeric_part < minimum
    \/ numeric_part # prev_numeric + 1

\* lines 273-280
IsOutOfOrder(numeric_part, letter_part, prev_numeric, prev_letter) ==
    \/ numeric_part > maximum
    \/ numeric_part < minimum
    \/ /\ numeric_part # prev_numeric + 1
       /\ ~(numeric_part = prev_numeric /\ StrGt(letter_part, prev_letter))

InitDoc ==
    /\ pc = "doc_extracted"
    /\ \E arg_min \in ArgMinimums, arg_max \in ArgMaximums :
          /\ minimum = OrDefault(arg_min, DefaultMinimum)
          /\ maximum = OrDefault(arg_max, DefaultMaximum)
    /\ output_data \in ExtractedData(minimum, maximum)
    /\ analyse_flag \in BOOLEAN
    /\ output_file \in ArgOutputFiles
    /\ pdf_texts = <<>>
    /\ dump = FALSE
    /\ page_number = 0
    /\ ocr_consulted = {}
    /\ id_pos = 0
    /\ prev_id = <<>>
    /\ first = TRUE
    /\ out_of_order_ids = <<>>
    /\ missing_ids = <<>>
    /\ EnvIdle
    /\ FirstIdle
    /\ NerIdle
    /\ CutIdle /\ MainIdle /\ ChunkIdle /\ GetIdle /\ ExcelIdle

docArgs == <<pdf_texts, dump, page_number, ocr_consulted, output_data, minimum,
             maximum, analyse_flag, output_file>>

\* lines 394-395 and 251-262: analyse is entered
DocAnalyseStart ==
    /\ pc = "doc_extracted"
    /\ output_data # <<>> /\ analyse_flag
    /\ id_pos' = 0
    /\ prev_id' = <<minimum - 1, <<>>>>
    /\ first' = TRUE
    /\ out_of_order_ids' = <<>>
    /\ missing_ids' = <<>>
    /\ pc' = "doc_analyse"
    /\ UNCHANGED <<docArgs, envVars, docRest>>

\* line 394: nothing to analyse, or no --analyse
DocAnalyseSkip ==
    /\ pc = "doc_extracted"
    /\ ~(output_data # <<>> /\ analyse_flag)
    /\ pc' = "doc_write"
    /\ UNCHANGED <<docVars, envVars, docRest>>

\* lines 263-286: one iteration of the loop over document_ids
AnalyseStep ==
    /\ pc = "doc_analyse"
    /\ id_pos < Len(output_data)
    /\ LET groups == IdGroups(output_data[id_pos + 1][1])
           letter_part == groups[2]
           numeric_part == ToInt(groups[1])
           prev_numeric == prev_id[1]
           prev_letter == prev_id[2]
       IN  IF first
           THEN /\ prev_id' = <<numeric_part, letter_part>>
                /\ first' = FALSE
                /\ UNCHANGED <<out_of_order_ids, missing_ids>>
           ELSE IF numeric_part > prev_numeric + 1
           THEN /\ missing_ids' = missing_ids \o
                       MissingRange(prev_numeric + 1, numeric_part, letter_part)
                /\ prev_id' = <<numeric_part, letter_part>>
                /\ UNCHANGED <<first, out_of_order_ids>>
           ELSE IF IsOutOfOrder(numeric_part, letter_part, prev_numeric, prev_letter)
           THEN /\ out_of_order_ids' =
                       Append(out_of_order_ids, ToStr(numeric_part) \o letter_part)
                /\ UNCHANGED <<first, prev_id, missing_ids>>
           ELSE /\ prev_id' = <<numeric_part, letter_part>>
                /\ UNCHANGED <<first, out_of_order_ids, missing_ids>>
    /\ id_pos' = id_pos + 1
    /\ UNCHANGED <<pc, docArgs, envVars, docRest>>

\* lines 288-292: the report
AnalyseReport ==
    /\ pc = "doc_analyse"
    /\ id_pos = Len(output_data)
    /\ stdout' = stdout
           \o (IF out_of_order_ids # <<>>
               THEN <<<<"Out-of-order document IDs", out_of_order_ids>>>>
               ELSE <<>>)
           \o (IF missing_ids # <<>>
               THEN <<<<"Missing document IDs", missing_ids>>>>
               ELSE <<>>)
    /\ pc' = "doc_write"
    /\ UNCHANGED <<docVars, fs, exit_status, http_log, docRest>>

\* lines 397-399 and 101-112: write_to_excel
DocWrite ==
    /\ pc = "doc_write"
    /\ output_data # <<>> /\ output_file # None
    /\ fs' = WriteFile(fs, output_file[1],
                       <<<<"DocumentID", "Page">>>> \o output_data)
    /\ stdout' = Append(stdout, <<"Data has been written to", output_file[1]>>)
    /\ pc' = "doc_done"
    /\ UNCHANGED <<docVars, exit_status, http_log, docRest>>

\* line 397: no data, or no --output-file
DocNoWrite ==
    /\ pc = "doc_write"
    /\ ~(output_data # <<>> /\ output_file # None)
    /\ pc' = "doc_done"
    /\ UNCHANGED <<docVars, envVars, docRest>>

NextDoc ==
    \/ DocAnalyseStart \/ DocAnalyseSkip \/ AnalyseStep \/ AnalyseReport
    \/ DocWrite \/ DocNoWrite

SpecDoc == InitDoc /\ [][NextDoc]_vars

\* C12: run without --output-file and with at least one ID extracted, the
\* data is saved to output.xlsx.
C12_DefaultOutputFileWritten ==
    (pc = "doc_done" /\ output_file = None /\ output_data # <<>>) =>
        \E f \in fs : f.path = <<"output", ".xlsx">>

\* the numbers of minimum..maximum that no extracted ID carries
NumbersNotExtracted ==
    {n \in minimum..maximum :
        \A i \in DOMAIN output_data : extract_number(output_data[i][1])[1] # n}

\* C14: analyse reports as missing every integer of minimum..maximum that no
\* extracted ID carries, and nothing else.
C14_MissingNumbersReported ==
    (pc \in {"doc_write", "doc_done"} /\ analyse_flag /\ output_data # <<>>) =>
        SeqSet(missing_ids) = {ToStr(n) : n \in NumbersNotExtracted}

(***************************************************************************)
(* cuda_ocr.main: the loop over the PDF files of the command line.  Every  *)
(* listed path holds a PDF at the start.                                   *)
(***************************************************************************)
MaxFiles == 3        \* cuda_ocr.main: files on the command line

\* paths are sequences of tokens; ".pdf" is one token
PdfNames == {<<"a", ".pdf">>, <<"b", ".pdf">>, <<"c">>, <<"a", ".pdf", ".pdf">>}

\* line 107: pdf_file_path.replace(".pdf", "_ocr.txt") replaces every occurrence
TextFilePath(pdf_file_path) ==
    [i \in DOMAIN pdf_file_path |->
        IF pdf_file_path[i] = ".pdf" THEN "_ocr.txt" ELSE pdf_file_path[i]]

\* os.path.exists
Exists(files, path) == \E f \in files : f.path = path

\* lines 20-22 of the module docstring: the output has the name of the input
\* with "_ocr.txt" appended, document.pdf giving document_ocr.txt
DocumentedTextPath(pdf_file_path) ==
    (IF pdf_file_path # <<>> /\ Last(pdf_file_path) = ".pdf"
     THEN SubSeq(pdf_file_path, 1, Len(pdf_file_path) - 1)
     ELSE pdf_file_path) \o <<"_ocr.txt">>

\* the file at pdf_path still holds the PDF it held at the start
HoldsPdf(files, pdf_path) == [path |-> pdf_path, content |-> <<"pdf">>] \in files

\* line 108: args.force or not os.path.exists(text_file_path)
ShouldOcr(forced, exists) == forced \/ ~exists

\* the documents behind the paths: one page that is read, or three pages of
\* which the second fails
MainDocuments ==
    {<<[raises |-> FALSE, ocr_results |-> <<<<"a">>>>]>>,
     <<[raises |-> FALSE, ocr_results |-> <<<<"a">>, <<"b", "c">>>>],
       [raises |-> TRUE, ocr_results |-> <<>>],
       [raises |-> FALSE, ocr_results |-> <<<<"b">>>>]>>}

\* lines 85-97 of process_pdf for the pages 1..n: the texts appended to
\* full_text and the lines printed
RECURSIVE ProcessPages(_, _)
ProcessPages(d, n) ==
    IF n = 0 THEN [full_text |-> <<>>, printed |-> <<>>]
    ELSE LET before == ProcessPages(d, n - 1)
         IN  IF d[n].raises
             THEN [full_text |-> before.full_text,
                   printed |-> before.printed \o <<ProcessingLine(n), ErrorLine(n)>>]
             ELSE [full_text |-> Append(before.full_text, perform_ocr_on_page(d[n])),
                   printed |-> Append(before.printed, ProcessingLine(n))]

\* lines 80-99: process_pdf on the document d that fitz.open returns, its
\* return value and its output
process_pdf(d) ==
    LET pages == ProcessPages(d, Len(d))
    IN  [text |-> Join(pages.full_text, <<NL, NL>>),
         printed |-> <<PagesLine(Len(d))>> \o pages.printed]

\* line 110: the text process_pdf extracts from a document
ExtractedText(d) == process_pdf(d).text

\* line 82: the documents fitz.open(pdf_path) can return.  A file that holds
\* its PDF opens as that document.  A file the run has overwritten with text
\* (line 112, a path without ".pdf" being its own text_file_path) is not a
\* PDF any more; what the library makes of it is not fixed by the script: it
\* opens it as some document, or raises (MainOpenFails)
Opened(files, docs, pdf_path) ==
    IF HoldsPdf(files, pdf_path) THEN {docs[pdf_path]} ELSE MainDocuments

mainRest == <<firstVars, nerVars,
    cutVars, docVars, chunkVars, getVars, excelVars>>

InitMain ==
    /\ pc = "main_loop"
    /\ pdf_files \in SeqsUpTo(PdfNames, MaxFiles) \ {<<>>}
    /\ documents \in [{pdf_files[i] : i \in DOMAIN pdf_files} -> MainDocuments]
    /\ force \in BOOLEAN
    /\ file_pos = 0
    /\ ocr_runs = <<>>
    /\ \E old \in SUBSET {TextFilePath(p) : p \in {q \in PdfNames : TextFilePath(q) # q}} :
          fs = {[path |-> pdf_files[i], content |-> <<"pdf">>] : i \in DOMAIN pdf_files}
               \cup {[path |-> t, content |-> <<"old text">>] : t \in old}
    /\ stdout = <<>>
    /\ exit_status = None
    /\ http_log = <<>>
    /\ FirstIdle
    /\ NerIdle
    /\ CutIdle /\ DocIdle /\ ChunkIdle /\ GetIdle /\ ExcelIdle

\* lines 106-113: the condition holds, the file is processed and written
MainProcess ==
    /\ pc = "main_loop"
    /\ file_pos < Len(pdf_files)
    /\ LET pdf_file_path == pdf_files[file_pos + 1]
           text_file_path == TextFilePath(pdf_file_path)
       IN  /\ ShouldOcr(force, Exists(fs, text_file_path))
           /\ ocr_runs' = Append(ocr_runs, pdf_file_path)
           /\ \E d \in Opened(fs, documents, pdf_file_path) :
                 /\ fs' = WriteFile(fs, text_file_path, ExtractedText(d))
                 /\ stdout' = stdout \o <<<<"Starting OCR for", pdf_file_path>>>>
                                      \o process_pdf(d).printed
                                      \o <<<<"Extracted text written to",
                                             text_file_path>>>>
    /\ file_pos' = file_pos + 1
    /\ UNCHANGED <<pc, pdf_files, documents, force, exit_status, http_log,
                   mainRest>>

\* lines 106-110 and 82: the condition holds, the file no longer holds a PDF
\* and fitz.open raises; nothing catches it
MainOpenFails ==
    /\ pc = "main_loop"
    /\ file_pos < Len(pdf_files)
    /\ LET pdf_file_path == pdf_files[file_pos + 1]
       IN  /\ ShouldOcr(force, Exists(fs, TextFilePath(pdf_file_path)))
           /\ ~HoldsPdf(fs, pdf_file_path)
           /\ ocr_runs' = Append(ocr_runs, pdf_file_path)
           /\ stdout' = Append(stdout, <<"Starting OCR for", pdf_file_path>>)
    /\ exit_status' = Some(1)
    /\ pc' = "main_error"
    /\ UNCHANGED <<pdf_files, documents, force, file_pos, fs, http_log, mainRest>>

\* line 108: the condition fails, the file is passed over
MainSkip ==
    /\ pc = "main_loop"
    /\ file_pos < Len(pdf_files)
    /\ ~ShouldOcr(force, Exists(fs, TextFilePath(pdf_files[file_pos + 1])))
    /\ file_pos' = file_pos + 1
    /\ UNCHANGED <<pc, pdf_files, documents, force, ocr_runs, envVars, mainRest>>

\* line 106: the list is exhausted
MainDone ==
    /\ pc = "main_loop"
    /\ file_pos = Len(pdf_files)
    /\ pc' = "main_done"
    /\ UNCHANGED <<mainVars, envVars, mainRest>>

NextMain == MainProcess \/ MainOpenFails \/ MainSkip \/ MainDone

SpecMain == InitMain /\ [][NextMain]_vars

\* C15: each step of the loop handles the next file of the command line; the
\* file is OCR-processed and its output text file (the one the docstring
\* names) written exactly when --force is given or that file does not exist
\* yet; without --force no file that exists is changed.
C15_ProcessedIffForcedOrNew ==
    [][(pc = "main_loop" /\ file_pos < Len(pdf_files)) =>
          LET p == pdf_files[file_pos + 1]
              t == DocumentedTextPath(p)
              ocr_done == /\ ocr_runs' = Append(ocr_runs, p)
                           /\ \E f \in fs' :
                                 /\ f.path = t
                                 /\ f.content \in {ExtractedText(d) : d \in MainDocuments}
          IN  /\ file_pos' = file_pos + 1
              /\ ocr_done <=> (force \/ ~(\E f \in fs : f.path = t))
              /\ ~ocr_done => (ocr_runs' = ocr_runs /\ fs' = fs)
              /\ ~force => fs \subseteq fs'
              /\ \A f \in fs : f.path # t => f \in fs'
    ]_vars

(***************************************************************************)
(* ner.chunk_text.  A text is a sequence of characters.                    *)
(***************************************************************************)
MaxTextLen == 5      \* chunk_text: longest text
MaxChunkLen == 3     \* chunk_text: largest max_length

TextChars == {"a", "b", " ", NL}
IsSpace(c) == c \in {" ", NL}

\* text.split(): the maximal runs of non-whitespace characters
RECURSIVE SplitLoop(_, _, _)
SplitLoop(s, word, words) ==
    IF s = <<>>
    THEN IF word = <<>> THEN words ELSE Append(words, word)
    ELSE IF IsSpace(Head(s))
    THEN SplitLoop(Tail(s), <<>>, IF word = <<>> THEN words ELSE Append(words, word))
    ELSE SplitLoop(Tail(s), Append(word, Head(s)), words)

Split(s) == SplitLoop(s, <<>>, <<>>)

\* sum(len(w) for w in current_chunk)
RECURSIVE SumLen(_)
SumLen(ws) == IF ws = <<>> THEN 0 ELSE Len(Head(ws)) + SumLen(Tail(ws))

FlushUnspaced(cs, current_chunk) ==
    IF current_chunk # <<>> THEN Append(cs, Join(current_chunk, <<>>)) ELSE cs

\* lines 110-111 and 118-119: if current_chunk: chunks.append(" ".join(current_chunk))
FlushChunk(cs, current_chunk) ==
    IF current_chunk # <<>> THEN Append(cs, Join(current_chunk, <<" ">>)) ELSE cs

\* lines 105-108
ExceedsMax(current_chunk, word, max) ==
    SumLen(current_chunk) + Len(word) + Len(current_chunk) > max

\* lines 103-119
RECURSIVE ChunkLoop(_, _, _, _)
ChunkLoop(words, current_chunk, cs, max) ==
    IF words = <<>> THEN FlushChunk(cs, current_chunk)
    ELSE IF ExceedsMax(current_chunk, Head(words), max)
    THEN ChunkLoop(Tail(words), <<Head(words)>>, FlushChunk(cs, current_chunk), max)
    ELSE ChunkLoop(Tail(words), Append(current_chunk, Head(words)), cs, max)

chunk_text(t, max) == ChunkLoop(Split(t), <<>>, <<>>, max)

chunkRest == <<firstVars, nerVars,
    envVars, cutVars, docVars, mainVars, getVars, excelVars>>

InitChunk ==
    /\ pc = "chunk_call"
    /\ text \in SeqsUpTo(TextChars, MaxTextLen)
    /\ max_length \in 1..MaxChunkLen
    /\ chunks = <<>>
    /\ FirstIdle
    /\ NerIdle
    /\ EnvIdle /\ CutIdle /\ DocIdle /\ MainIdle /\ GetIdle /\ ExcelIdle

ChunkTextCall ==
    /\ pc = "chunk_call"
    /\ chunks' = chunk_text(text, max_length)
    /\ pc' = "chunk_done"
    /\ UNCHANGED <<text, max_length, chunkRest>>

NextChunk == ChunkTextCall

SpecChunk == InitChunk /\ [][NextChunk]_vars

\* C16: every chunk chunk_text returns is at most max_length characters long.
C16_ChunksWithinMaxLength ==
    pc = "chunk_done" => \A i \in DOMAIN chunks : Len(chunks[i]) <= max_length

\* the words of all chunks, in order
RECURSIVE WordsOf(_)
WordsOf(cs) == IF cs = <<>> THEN <<>> ELSE Split(Head(cs)) \o WordsOf(Tail(cs))

\* C17: the whitespace-split words of the returned chunks, concatenated in
\* order, are exactly text.split(), and no chunk is empty.
C17_WordsPreserved ==
    pc = "chunk_done" =>
        /\ WordsOf(chunks) = Split(text)
        /\ \A i \in DOMAIN chunks : chunks[i] # <<>>

\* C17 witness: a text of three words returned as a chunk of two words and
\* a chunk of one
C17_Witness ==
    /\ pc = "chunk_done"
    /\ Len(Split(text)) = 3
    /\ Len(chunks) = 2
    /\ \E i \in DOMAIN chunks : Len(Split(chunks[i])) = 2

(***************************************************************************)
(* get_pdfs.main.  Paths and URLs are sequences of tokens; a JSON object   *)
(* is a record with the set of keys it has.                                *)
(***************************************************************************)
MaxResults == 2      \* get_pdfs: entries of "results", and largest totalcount
MaxAnchors == 2      \* get_pdfs: anchors on a publication page

JSON_URL == <<"JSON_URL">>
BASE_URL == <<"BASE_URL">>

ResultLinks == {<<"#", "p">>, <<"#", "q">>, <<"#">>}
\* a title that is None or "" is <<>>
ResultTitles == {<<>>, <<"T">>}
ResultEntries == [link : ResultLinks, title : ResultTitles]

JsonObjects ==
    {[keys |-> {}, results |-> <<>>, totalcount |-> 0]}
    \cup [keys : {{"totalcount"}}, results : {<<>>}, totalcount : 0..MaxResults]
    \cup [keys : {{"results", "totalcount"}},
          results : SeqsUpTo(ResultEntries, MaxResults),
          totalcount : 0..MaxResults]

\* what requests.get(JSON_URL) does: raises, answers with another status, or
\* answers 200 with a JSON object
JsonResponses ==
    {[kind |-> "exception", json |-> <<>>], [kind |-> "status", json |-> <<>>]}
    \cup [kind : {"ok"}, json : {Some(j) : j \in JsonObjects}]

Hrefs == {<<"x", ".pdf">>, <<"y", ".txt">>}
PageResponses ==
    {[kind |-> "exception", hrefs |-> <<>>], [kind |-> "status", hrefs |-> <<>>]}
    \cup [kind : {"ok"}, hrefs : SeqsUpTo(Hrefs, MaxAnchors)]

\* `if data:` for None and for a dict
Truthy(d) == d # None /\ d[1].keys # {}
\* data.get("results", []) and data.get("totalcount", 0)
Results(d) == IF "results" \in d[1].keys THEN d[1].results ELSE <<>>
TotalCount(d) == IF "totalcount" \in d[1].keys THEN d[1].totalcount ELSE 0

CountsMatchAtMost(d) == Len(Results(d)) <= TotalCount(d)

\* line 156
CountsMatch(d) == Len(Results(d)) = TotalCount(d)

\* line 163: result.get("link").lstrip("#")
RECURSIVE LStripHash(_)
LStripHash(s) ==
    IF s # <<>> /\ Head(s) = "#" THEN LStripHash(Tail(s)) ELSE s

\* link_title_pairs[pub] = title on a dict kept as a sequence of pairs
DictSet(d, k, v) ==
    IF \E i \in DOMAIN d : d[i][1] = k
    THEN [i \in DOMAIN d |-> IF d[i][1] = k THEN <<k, v>> ELSE d[i]]
    ELSE Append(d, <<k, v>>)

\* lines 162-167: the dict and the rows of titles.csv
RECURSIVE TitlesLoop(_, _, _)
TitlesLoop(results, pairs, rows) ==
    IF results = <<>> THEN [pairs |-> pairs, rows |-> rows]
    ELSE LET pub == LStripHash(Head(results).link)
             title == Head(results).title
         IN  IF pub # <<>> /\ title # <<>>
             THEN TitlesLoop(Tail(results), DictSet(pairs, pub, title),
                             Append(rows, <<pub, title>>))
             ELSE TitlesLoop(Tail(results), pairs, rows)

\* lines 93-97: the hrefs that end with ".pdf"
EndsWithPdf(href) == href # <<>> /\ Last(href) = ".pdf"
RECURSIVE PdfLinks(_)
PdfLinks(hrefs) ==
    IF hrefs = <<>> THEN <<>>
    ELSE IF EndsWithPdf(Head(hrefs)) THEN <<Head(hrefs)>> \o PdfLinks(Tail(hrefs))
    ELSE PdfLinks(Tail(hrefs))

Dir(pub) == [path |-> pub, content |-> <<"dir">>]
PubFile(pub, name) == pub \o <<"/">> \o name

\* the directory the program is started in: empty, or holding publication p
\* with a skip marker or with a PDF fetched before
InitialFiles ==
    {{},
     {Dir(<<"p">>), [path |-> PubFile(<<"p">>, <<"skip">>), content |-> <<>>]},
     {Dir(<<"p">>), [path |-> PubFile(<<"p">>, <<"x", ".pdf">>), content |-> <<"old">>]}}

\* what requests.get(pdf_url) does in download_pdf: answers 200, answers with
\* another status, or raises a RequestException
DownloadOutcomes == {"ok", "status", "exception"}

\* lines 177-184 and download_pdf (lines 119-129): outcomes[i] is what the
\* i-th request would do
RECURSIVE DownloadLoop(_, _, _, _, _, _)
DownloadLoop(pdfs, outcomes, pub, files, log, out) ==
    IF pdfs = <<>> THEN [files |-> files, log |-> log, out |-> out]
    ELSE LET pdf_url == BASE_URL \o PubFile(pub, Head(pdfs))
             pdf_path == PubFile(pub, Head(pdfs))
         IN  IF ~Exists(files, pdf_path) /\ ~Exists(files, PubFile(pub, <<"skip">>))
             THEN IF Head(outcomes) = "ok"
                  THEN DownloadLoop(Tail(pdfs), Tail(outcomes), pub,
                           WriteFile(files, pdf_path, <<"content of">> \o pdf_url),
                           Append(log, pdf_url),
                           Append(out, <<"File downloaded and saved as">> \o pdf_path))
                  ELSE IF Head(outcomes) = "status"
                  THEN DownloadLoop(Tail(pdfs), Tail(outcomes), pub, files,
                           Append(log, pdf_url),
                           Append(out, <<"Failed to download the file">>))
                  ELSE DownloadLoop(Tail(pdfs), Tail(outcomes), pub, files,
                           Append(log, pdf_url),
                           Append(out, <<"An error occurred">>))
             ELSE DownloadLoop(Tail(pdfs), Tail(outcomes), pub, files, log, out)

getRest == <<firstVars, nerVars,
    cutVars, docVars, mainVars, chunkVars, excelVars>>

InitGet ==
    /\ pc = "get_start"
    /\ data = None
    /\ link_title_pairs = <<>>
    /\ pub_pos = 0
    /\ fs \in InitialFiles
    /\ stdout = <<>>
    /\ exit_status = None
    /\ http_log = <<>>
    /\ FirstIdle
    /\ NerIdle
    /\ CutIdle /\ DocIdle /\ MainIdle /\ ChunkIdle /\ ExcelIdle

\* line 153 and get_json_data
GetFetch ==
    /\ pc = "get_start"
    /\ \E response \in JsonResponses :
          /\ data' = response.json
          /\ stdout' = IF response.kind = "ok" THEN stdout
                       ELSE IF response.kind = "status"
                       THEN Append(stdout, <<"Failed to retrieve JSON data">>)
                       ELSE Append(stdout, <<"An error occurred">>)
    /\ http_log' = Append(http_log, JSON_URL)
    /\ pc' = "get_fetched"
    /\ UNCHANGED <<link_title_pairs, pub_pos, fs, exit_status, getRest>>

\* line 155: data is None or an empty object
GetNoData ==
    /\ pc = "get_fetched"
    /\ ~Truthy(data)
    /\ pc' = "get_done"
    /\ UNCHANGED <<getVars, envVars, getRest>>

\* lines 185-188
GetCountMismatch ==
    /\ pc = "get_fetched"
    /\ Truthy(data) /\ ~CountsMatch(data)
    /\ stdout' = Append(stdout, <<"The result count does not match the totalcount">>)
    /\ pc' = "get_done"
    /\ UNCHANGED <<getVars, fs, exit_status, http_log, getRest>>

\* lines 157-167: titles.csv
GetTitles ==
    /\ pc = "get_fetched"
    /\ Truthy(data) /\ CountsMatch(data)
    /\ LET built == TitlesLoop(Results(data), <<>>, <<>>)
       IN  /\ link_title_pairs' = built.pairs
           /\ fs' = WriteFile(fs, <<"titles.csv">>, <<<<"Link", "Title">>>> \o built.rows)
    /\ pub_pos' = 0
    /\ pc' = "get_loop"
    /\ UNCHANGED <<data, stdout, exit_status, http_log, getRest>>

\* lines 169-184: one publication
GetPublication ==
    /\ pc = "get_loop"
    /\ pub_pos < Len(link_title_pairs)
    /\ \E page \in PageResponses, outcomes \in [1..MaxAnchors -> DownloadOutcomes] :
          LET pub == link_title_pairs[pub_pos + 1][1]
              title == link_title_pairs[pub_pos + 1][2]
              page_url == BASE_URL \o pub \o <<"/">>
              pdf_links == PdfLinks(page.hrefs)
              made == IF Exists(fs, pub) THEN fs ELSE fs \cup {Dir(pub)}
              titled == WriteFile(made, PubFile(pub, <<"title.txt">>), title)
              scraped == stdout \o <<<<"Link", "Title">> \o pub \o title>>
                         \o (IF page.kind = "ok" THEN <<>>
                             ELSE IF page.kind = "status"
                             THEN <<<<"Failed to retrieve the webpage">>>>
                             ELSE <<<<"An error occurred">>>>)
              loaded == DownloadLoop(pdf_links, outcomes, pub, titled,
                                     Append(http_log, page_url), scraped)
          IN  /\ fs' = WriteFile(loaded.files, PubFile(pub, <<"pdfs.txt">>),
                          [i \in DOMAIN pdf_links |->
                              BASE_URL \o PubFile(pub, pdf_links[i])])
              /\ http_log' = loaded.log
              /\ stdout' = loaded.out
    /\ pub_pos' = pub_pos + 1
    /\ UNCHANGED <<pc, data, link_title_pairs, exit_status, getRest>>

\* line 169: every publication is done
GetDone ==
    /\ pc = "get_loop"
    /\ pub_pos = Len(link_title_pairs)
    /\ pc' = "get_done"
    /\ UNCHANGED <<getVars, envVars, getRest>>

NextGet ==
    \/ GetFetch \/ GetNoData \/ GetCountMismatch \/ GetTitles
    \/ GetPublication \/ GetDone

SpecGet == InitGet /\ [][NextGet]_vars

Warnings == {<<"Failed to retrieve JSON data">>, <<"An error occurred">>,
             <<"The result count does not match the totalcount">>}

\* C18: once the fetch has failed, or has returned JSON whose number of
\* results differs from its totalcount, the directory holds what it held at
\* the start, the only HTTP request made is the one for the JSON, and at the
\* end exactly one line, a warning, has been printed.
C18_RejectedDataTouchesNothing ==
    (pc # "get_start" /\ (data = None \/ Len(Results(data)) # TotalCount(data))) =>
        /\ fs \in InitialFiles
        /\ http_log = <<JSON_URL>>
        /\ link_title_pairs = <<>>
        /\ pc \in {"get_fetched", "get_done"}
        /\ pc = "get_done" => (Len(stdout) = 1 /\ stdout[1] \in Warnings)

\* C18 witness: a run that ended on JSON with fewer results than totalcount
\* whose one result has a link and a title
C18_Witness ==
    /\ pc = "get_done"
    /\ data # None
    /\ Len(Results(data)) = 1
    /\ TotalCount(data) = 2
    /\ LStripHash(Results(data)[1].link) # <<>>
    /\ Results(data)[1].title # <<>>
    /\ stdout = <<<<"The result count does not match the totalcount">>>>

(***************************************************************************)
(* pdf_to_excel: main's zoom check and process_pdf_and_ocr_to_excel, with  *)
(* --start_page at its default 1.  The zoom factor is a float; what the    *)
(* grid detector finds on a page is drawn from the coordinates of the      *)
(* image it is given.                                                      *)
(***************************************************************************)
\* --zoom: absent, or a float
Zooms == {None, Some(Zero), Some(F64(1, 2)), Some(F64(7, 10)), Some(F64(3, 4)),
          Some(One), Some(F64(3, 2)), Some(F64(-1, 2)), Some(NaN)}

\* the pages pdf2image returns for the PDFs of the model; the two pages of the
\* fourth PDF are the same image
PageImages == {<<>>,
               <<[width |-> 3, height |-> 3]>>,
               <<[width |-> 3, height |-> 3], [width |-> 2, height |-> 2]>>,
               <<[width |-> 2, height |-> 2], [width |-> 2, height |-> 2]>>,
               <<[width |-> 4, height |-> 2]>>}

\* what find_grid_lines_on_image can return for one axis of an image of the
\* given extent: any number of its coordinates, each at most once, in any
\* order (the positions at or above the cutoff, sorted by likelihood)
FoundLines(extent) ==
    {ls \in SeqsUpTo(0..(extent - 1), extent) :
        \A i, j \in DOMAIN ls : i # j => ls[i] # ls[j]}

\* truth value of a float: False for 0.0 only
FloatTruthy(a) == ~IsZero(a)

\* `if config.zoom` for None and for a float
ZoomGiven(z) == z # None /\ FloatTruthy(z[1])

\* line 263: args.zoom and not 0 < args.zoom <= 1
ZoomRejected(z) ==
    ZoomGiven(z) /\ ~(F64Gt(z[1], Zero) /\ F64Geq(One, z[1]))


\* lines 111-117: the size of grid_img
GridSize(img, z) ==
    IF ZoomGiven(z)
    THEN [width |-> F64Int(F64Mul(FromInt(img.width), z[1])),
          height |-> F64Int(F64Mul(FromInt(img.height), z[1]))]
    ELSE img

\* mutant: the lines are scaled by zoom instead of by its inverse
MapBackScaled(ls, z) ==
    IF ZoomGiven(z)
    THEN [k \in DOMAIN ls |-> F64Int(F64Mul(FromInt(ls[k]), z[1]))]
    ELSE ls

\* lines 127-130: int(line * inverse_zoom) with inverse_zoom = 1.0 / zoom
MapBack(ls, z) ==
    IF ZoomGiven(z)
    THEN [k \in DOMAIN ls |->
             F64Int(F64Mul(FromInt(ls[k]), F64Div(One, z[1])))]
    ELSE ls

\* ocr_cell of the crop of a page: the text found in that box
CellText(page, box) == <<page>> \o box

\* a box whose right edge is left of its left edge, or whose lower edge is
\* above its upper edge: lines that are not in increasing order give such
\* boxes.  Whether img.crop and ocr_cell return for one is not fixed by the
\* script: they return a text (ExcelPage) or one of them raises
\* (ExcelCellRaises)
Reversed(box) == box[3] < box[1] \/ box[4] < box[2]

\* the calls of the cell loop that are handed the box or its crop: img.crop
\* (line 146), cell_image.save (line 157), ocr_cell (line 160)
RaisePlaces == {"crop", "save", "ocr_cell"}

\* mutant: rows run over the vertical lines and cells over the horizontal ones
PageDataTransposed(page, V, H) ==
    [i \in 1..(IF Len(V) > 0 THEN Len(V) - 1 ELSE 0) |->
        [j \in 1..(IF Len(H) > 0 THEN Len(H) - 1 ELSE 0) |->
            CellText(page, <<V[i], H[j], V[i + 1], H[j + 1]>>)]]

\* lines 135-174: the rows of one page
PageData(page, V, H) ==
    [i \in 1..(IF Len(H) > 0 THEN Len(H) - 1 ELSE 0) |->
        [j \in 1..(IF Len(V) > 0 THEN Len(V) - 1 ELSE 0) |->
            CellText(page, <<V[j], H[i], V[j + 1], H[i + 1]>>)]]

\* images.index(img) + config.start_page: the first page equal to img
PageLabel(imgs, img) ==
    CHOOSE i \in DOMAIN imgs : imgs[i] = img /\ \A k \in 1..(i - 1) : imgs[k] # img

\* lines 135-137: the cells <<i, j>> of a page in the order of the two loops
Cells(V, H) ==
    LET nr == IF Len(H) > 0 THEN Len(H) - 1 ELSE 0
        nc == IF Len(V) > 0 THEN Len(V) - 1 ELSE 0
    IN  [k \in 1..(nr * nc) |-> <<(k - 1) \div nc, (k - 1) % nc>>]

\* the rectangle of cell <<i, j>>
CellBox(V, H, cell) ==
    <<V[cell[2] + 1], H[cell[1] + 1], V[cell[2] + 2], H[cell[1] + 2]>>

\* lines 139-145, 154-155 and 161-164: what --verbose prints for the cells
RECURSIVE VerboseCells(_, _, _, _, _)
VerboseCells(label, page, V, H, cells) ==
    IF cells = <<>> THEN <<>>
    ELSE LET box == CellBox(V, H, Head(cells))
         IN  <<box, <<"Getting cell data">>,
               <<"Page", label, "Cell", Head(cells)[1], Head(cells)[2],
                 "found text", CellText(page, box)>>>>
             \o VerboseCells(label, page, V, H, Tail(cells))

\* lines 108-109 and the prints of the cell loop
VerboseLines(label, page, V, H) ==
    IF ~verbose THEN <<>>
    ELSE <<<<"Getting cell information">>>>
         \o (IF no_ocr THEN <<>> ELSE VerboseCells(label, page, V, H, Cells(V, H)))

\* lines 156-159: with --verbose and --debug every cell image is saved
RECURSIVE SaveCells(_, _, _, _, _, _)
SaveCells(files, label, page, V, H, cells) ==
    IF cells = <<>> THEN files
    ELSE SaveCells(
             WriteFile(files,
                 <<"debug_cell_">> \o ToStr(label) \o <<"_">> \o ToStr(Head(cells)[1])
                     \o <<"_">> \o ToStr(Head(cells)[2]) \o <<".png">>,
                 <<<<CellText(page, CellBox(V, H, Head(cells)))>>>>),
             label, page, V, H, Tail(cells))

\* lines 132-133, 166-171 and 178-182: with --debug the page is saved with the
\* rectangles of its cells drawn on it
DebugFiles(files, label, page, V, H) ==
    IF ~debug THEN files
    ELSE WriteFile(
             IF verbose /\ ~no_ocr
             THEN SaveCells(files, label, page, V, H, Cells(V, H))
             ELSE files,
             <<"debug_page_">> \o ToStr(label) \o <<".png">>,
             <<[k \in DOMAIN Cells(V, H) |-> CellBox(V, H, Cells(V, H)[k])]>>)

\* lines 135-174 with --no-ocr: row_data stays empty
EmptyRows(H) == [i \in 1..(IF Len(H) > 0 THEN Len(H) - 1 ELSE 0) |-> <<>>]

\* lines 184-185: pd.DataFrame(rows).to_excel(path, index=False) writes a
\* header of column numbers and the rows padded to the longest one
RowWidth(rows) ==
    IF rows = <<>> THEN 0
    ELSE CHOOSE n \in {Len(rows[i]) : i \in DOMAIN rows} :
             \A i \in DOMAIN rows : Len(rows[i]) <= n
ToExcel(rows) ==
    LET n == RowWidth(rows) IN
    <<[c \in 1..n |-> <<c - 1>>]>> \o
    [i \in DOMAIN rows |->
        [c \in 1..n |-> IF c <= Len(rows[i]) THEN rows[i][c] ELSE <<>>]]

excelRest == <<firstVars, nerVars,
    cutVars, docVars, mainVars, chunkVars, getVars>>

InitExcel ==
    /\ pc = "excel_start"
    /\ zoom \in Zooms
    /\ images = <<>>
    /\ img_pos = 0
    /\ all_page_data = <<>>
    /\ no_ocr \in BOOLEAN
    /\ verbose \in BOOLEAN
    /\ debug \in BOOLEAN
    /\ found_lines = NoLines
    /\ cell_lines = NoLines
    /\ EnvIdle
    /\ FirstIdle
    /\ NerIdle
    /\ CutIdle /\ DocIdle /\ MainIdle /\ ChunkIdle /\ GetIdle

\* lines 263-265
ExcelRejectZoom ==
    /\ pc = "excel_start"
    /\ ZoomRejected(zoom)
    /\ stdout' = Append(stdout, <<"Zoom factor should be between 0 and 1.">>)
    /\ exit_status' = Some(1)
    /\ pc' = "excel_exit"
    /\ UNCHANGED <<excelVars, fs, http_log, excelRest>>

\* lines 267-280 and 100-105: the pages are converted to images
ExcelConvert ==
    /\ pc = "excel_start"
    /\ ~ZoomRejected(zoom)
    /\ stdout' = IF verbose THEN Append(stdout, <<"Getting PDF images">>) ELSE stdout
    /\ images' \in PageImages
    /\ img_pos' = 0
    /\ all_page_data' = <<>>
    /\ pc' = "excel_pages"
    /\ UNCHANGED <<zoom, no_ocr, verbose, debug, found_lines, cell_lines, fs,
                   exit_status, http_log, excelRest>>

\* lines 106-182: one page, every crop and every ocr_cell returning
ExcelPage ==
    /\ pc = "excel_pages"
    /\ img_pos < Len(images)
    /\ LET img == images[img_pos + 1]
           grid_img == GridSize(img, zoom)
       IN  \E found_v \in FoundLines(grid_img.width),
              found_h \in FoundLines(grid_img.height) :
              /\ found_lines' = <<found_v, found_h>>
              /\ cell_lines' = <<MapBack(found_v, zoom), MapBack(found_h, zoom)>>
              /\ all_page_data' = all_page_data \o
                     (IF no_ocr
                      THEN EmptyRows(cell_lines'[2])
                      ELSE PageData(img_pos + 1, cell_lines'[1], cell_lines'[2]))
              /\ stdout' = stdout \o VerboseLines(PageLabel(images, img), img_pos + 1,
                                                 cell_lines'[1], cell_lines'[2])
              /\ fs' = DebugFiles(fs, PageLabel(images, img), img_pos + 1,
                                  cell_lines'[1], cell_lines'[2])
    /\ img_pos' = img_pos + 1
    /\ UNCHANGED <<pc, zoom, images, no_ocr, verbose, debug, exit_status, http_log,
                   excelRest>>

\* lines 106-160: a page with a box that is no rectangle, on which a call of
\* the cell loop raises; nothing catches it.  The cells before it are done
ExcelCellRaises ==
    /\ pc = "excel_pages"
    /\ img_pos < Len(images)
    /\ ~no_ocr
    /\ LET img == images[img_pos + 1]
           grid_img == GridSize(img, zoom)
           label == PageLabel(images, img)
       IN  \E found_v \in FoundLines(grid_img.width),
              found_h \in FoundLines(grid_img.height),
              place \in RaisePlaces :
              LET V == MapBack(found_v, zoom)
                  H == MapBack(found_h, zoom)
                  cells == Cells(V, H)
                  bad == {k \in DOMAIN cells : Reversed(CellBox(V, H, cells[k]))}
              IN  /\ bad # {}
                  /\ place = "save" => (verbose /\ debug)
                  /\ LET k == CHOOSE n \in bad : \A m \in bad : n <= m
                         done == SubSeq(cells, 1, k - 1)
                     IN  /\ found_lines' = <<found_v, found_h>>
                         /\ cell_lines' = <<V, H>>
                         /\ stdout' = stdout \o
                               (IF verbose
                                THEN <<<<"Getting cell information">>>>
                                     \o VerboseCells(label, img_pos + 1, V, H, done)
                                     \o <<CellBox(V, H, cells[k])>>
                                     \o (IF place = "crop" THEN <<>>
                                         ELSE <<<<"Getting cell data">>>>)
                                ELSE <<>>)
                         /\ fs' = IF verbose /\ debug
                                  THEN SaveCells(fs, label, img_pos + 1, V, H,
                                           IF place = "ocr_cell"
                                           THEN SubSeq(cells, 1, k) ELSE done)
                                  ELSE fs
    /\ exit_status' = Some(1)
    /\ pc' = "excel_error"
    /\ UNCHANGED <<zoom, images, img_pos, all_page_data, no_ocr, verbose, debug,
                   http_log, excelRest>>

\* lines 184-185
ExcelSave ==
    /\ pc = "excel_pages"
    /\ img_pos = Len(images)
    /\ fs' = WriteFile(fs, <<"out", ".xlsx">>, ToExcel(all_page_data))
    /\ pc' = "excel_done"
    /\ UNCHANGED <<excelVars, stdout, exit_status, http_log, excelRest>>

NextExcel ==
    \/ ExcelRejectZoom \/ ExcelConvert \/ ExcelPage \/ ExcelCellRaises
    \/ ExcelSave

SpecExcel == InitExcel /\ [][NextExcel]_vars

\* C19: processing starts only when --zoom is absent or 0 < zoom <= 1; for
\* every other zoom the error is printed and the program exits with status 1
\* with no page converted.
C19_ZoomCheckedBeforeProcessing ==
    pc # "excel_start" =>
        IF zoom = None \/ (F64Gt(zoom[1], Zero) /\ F64Geq(One, zoom[1]))
        THEN pc \in {"excel_pages", "excel_error", "excel_done"}
        ELSE /\ pc = "excel_exit"
             /\ exit_status = Some(1)
             /\ stdout = <<<<"Zoom factor should be between 0 and 1.">>>>
             /\ images = <<>>
             /\ all_page_data = <<>>

(***************************************************************************)
(* Reference for refine_lines (SpecRefine), written without the loop.      *)
(***************************************************************************)
Occurrences(s, v) == Cardinality({i \in DOMAIN s : s[i] = v})
IsPermutationOf(s, t) ==
    Len(s) = Len(t) /\ \A v \in SeqSet(s) \cup SeqSet(t) : Occurrences(s, v) = Occurrences(t, v)
Reorderings(s) == {t \in [DOMAIN s -> SeqSet(s)] : IsPermutationOf(t, s)}

\* the coordinates in nondecreasing order
SortedCoordinates(s) ==
    CHOOSE t \in Reorderings(s) : \A i \in 1..(Len(t) - 1) : t[i] <= t[i + 1]

\* the positions of a sorted list where a maximal run with gaps <= d starts
RunStarts(t, d) == {i \in DOMAIN t : i = 1 \/ t[i] - t[i - 1] > d}
\* the last position of the run that starts at i
RunEnd(t, d, i) ==
    CHOOSE j \in i..Len(t) :
        /\ \A k \in (i + 1)..j : k \notin RunStarts(t, d)
        /\ j = Len(t) \/ j + 1 \in RunStarts(t, d)

\* the arithmetic mean of a run truncated toward zero: the integer q of the
\* sign of the sum with |q| * n <= |sum| < (|q| + 1) * n
TruncatedMean(run) ==
    LET total == SumSeq(run)
        n == Len(run)
        abs(x) == IF x < 0 THEN -x ELSE x
    IN  CHOOSE q \in (-abs(total))..abs(total) :
            /\ q * total >= 0
            /\ abs(q) * n <= abs(total)
            /\ abs(total) < (abs(q) + 1) * n

RefineReference(s, d) ==
    LET t == SortedCoordinates(s)
        starts == RunStarts(t, d)
        StartOf(k) == CHOOSE i \in starts : Cardinality({j \in starts : j < i}) = k - 1
    IN  [k \in 1..Cardinality(starts) |->
            TruncatedMean(SubSeq(t, StartOf(k), RunEnd(t, d, StartOf(k))))]

\* C20: refine_lines returns one line per maximal run of the sorted
\* coordinates with consecutive gaps <= d, in increasing order, each the mean
\* of its run truncated to an integer; every reordering of the input gives the
\* same result.
C20_EqualsReference ==
    pc = "refine_done" =>
        /\ refined = RefineReference(lines, min_distance)
        /\ \A t \in Reorderings(lines) :
              refine_lines(t, min_distance) = refined

\* C20 witness: three coordinates given out of order and merged into two runs
C20_Witness ==
    /\ pc = "refine_done"
    /\ Len(lines) = 3
    /\ lines[1] > lines[2]
    /\ Len(refined) = 2

\* the zoom factor lies in (0, 1]
ZoomInUnitRange ==
    zoom # None /\ F64Gt(zoom[1], Zero) /\ F64Geq(One, zoom[1])

\* the page whose lines found_lines and cell_lines hold
LinesPage == IF pc = "excel_error" THEN img_pos + 1 ELSE img_pos

\* C21: with a zoom factor in (0, 1], the lines found on the zoomed image are
\* mapped back to coordinates inside the original image, and two found lines
\* a < b are mapped to coordinates in the same strict order.
C21_MappedLinesInsideAndOrdered ==
    (pc \in {"excel_pages", "excel_error", "excel_done"} /\ LinesPage >= 1
     /\ ZoomInUnitRange) =>
        LET img == images[LinesPage] IN
        /\ Len(cell_lines[1]) = Len(found_lines[1])
        /\ Len(cell_lines[2]) = Len(found_lines[2])
        /\ \A k \in DOMAIN cell_lines[1] :
              0 <= cell_lines[1][k] /\ cell_lines[1][k] < img.width
        /\ \A k \in DOMAIN cell_lines[2] :
              0 <= cell_lines[2][k] /\ cell_lines[2][k] < img.height
        /\ \A axis \in {1, 2} : \A a, b \in DOMAIN found_lines[axis] :
              found_lines[axis][a] < found_lines[axis][b] =>
                  cell_lines[axis][a] < cell_lines[axis][b]

\* C21 witness: at zoom 1/2 both columns of the zoomed page were found, in
\* decreasing order, and were mapped back to 2 and 0
C21_Witness ==
    /\ pc = "excel_pages"
    /\ zoom = Some(F64(1, 2))
    /\ Len(images) = 1 /\ images[1].width = 4
    /\ found_lines[1] = <<1, 0>>
    /\ cell_lines[1] = <<2, 0>>

Max0(n) == IF n > 0 THEN n ELSE 0

MaxItems == 2        \* ner: pages of a PDF, chunks of a text

\* --certainty: two values main accepts and one it rejects
Certainties == {F64(1, 2), F64(9, 10), F64(3, 2)}
SpanChoices ==
    {[text |-> "A", tag |-> "PER", score |-> F64(9, 10)],
     [text |-> "A", tag |-> "LOC", score |-> F64(9, 10)],
     [text |-> "B", tag |-> "PER", score |-> F64(1, 2)],
     [text |-> "B", tag |-> "MISC", score |-> F64(9, 10)]}
\* sentence.get_spans("ner") of a sentence with up to two entities, which
\* differ in text, tag or score
SpanLists ==
    {spans \in UNION {[1..k -> SpanChoices] : k \in {0, 1, 2}} :
        \A i, j \in DOMAIN spans : i # j => spans[i] # spans[j]}

\* tagger.predict returns, or raises an error of line 154 (RuntimeError or
\* ValueError, which the script treats alike), or a MemoryError (which lines
\* 198 and 381 tell apart from them)
TaggingError == "RuntimeError or ValueError"
TaggerOutcomes ==
    [skipped : {FALSE}, raises : {"no"}, spans : SpanLists]
    \cup [skipped : {FALSE}, raises : {TaggingError, "MemoryError"}, spans : {<<>>}]
\* line 187: a page without meaningful text is passed over
SkippedPage == [skipped |-> TRUE, raises |-> "no", spans |-> <<>>]

\* an outcome after which no further page or chunk is looked at: a
\* MemoryError, and for a text any error of the tagger
EndsRun(kind, item) ==
    item.raises = "MemoryError" \/ (kind = "txt" /\ item.raises # "no")

\* a PDF with its pages; a text with its chunks, or without meaningful
\* content; a path that is no file; a file that is neither .pdf nor .txt.
\* A file of the model ends with the item that ends the run
NerFiles ==
    {f \in [kind : {"pdf"}, meaningful : {TRUE},
            items : SeqsUpTo(TaggerOutcomes \cup {SkippedPage}, MaxItems)]
          \cup [kind : {"txt"}, meaningful : {TRUE},
                items : SeqsUpTo(TaggerOutcomes, MaxItems)] :
        \A i \in 1..(Len(f.items) - 1) : ~EndsRun(f.kind, f.items[i])}
    \cup {[kind |-> k, meaningful |-> FALSE, items |-> <<>>] :
             k \in {"txt", "missing", "other"}}

\* args.files[0]
FilePath(file) ==
    <<"doc", CASE file.kind = "pdf" -> ".pdf"
               [] file.kind = "txt" -> ".txt"
               [] file.kind = "missing" -> ".pdf"
               [] OTHER -> ".doc">>

\* lines 367 and 373: f"{os.path.splitext(file_path)[0]}.ner.xlsx"
OutputPath(file_path, suffix) ==
    SubSeq(file_path, 1, Len(file_path) - 1) \o <<suffix>>

\* line 319: not 0 <= args.certainty <= 1
CertaintyRejected(c) == ~(F64Geq(c, Zero) /\ F64Geq(One, c))

HasKey(d, k) == \E i \in DOMAIN d : d[i][1] = k
Lookup(d, k) == d[CHOOSE i \in DOMAIN d : d[i][1] = k][2]

QualifiesAboveOnly(span, c) == F64Gt(span.score, c) /\ span.tag # "MISC"

\* line 146: label.score >= certainty and label.value != "MISC"
Qualifies(span, c) == F64Geq(span.score, c) /\ span.tag # "MISC"

\* lines 147-152
CountSpan(entity_info, span) ==
    IF HasKey(entity_info, span.text)
    THEN [i \in DOMAIN entity_info |->
             IF entity_info[i][1] = span.text
             THEN <<span.text, [tag |-> entity_info[i][2].tag,
                                count |-> entity_info[i][2].count + 1]>>
             ELSE entity_info[i]]
    ELSE Append(entity_info, <<span.text, [tag |-> span.tag, count |-> 1]>>)

\* lines 142-152
RECURSIVE SpanLoop(_, _, _)
SpanLoop(spans, entity_info, c) ==
    IF spans = <<>> THEN entity_info
    ELSE SpanLoop(Tail(spans),
                  IF Qualifies(Head(spans), c)
                  THEN CountSpan(entity_info, Head(spans))
                  ELSE entity_info,
                  c)

\* lines 139-155: the dict, or None after the except clause
process_entities(item, c) ==
    IF item.raises # "no" THEN None ELSE Some(SpanLoop(item.spans, <<>>, c))

\* lines 143-144: with --verbose every span is printed, counted or not
SpanLines(spans) ==
    IF verbose
    THEN [k \in DOMAIN spans |-> <<"Span", spans[k].text, spans[k].tag, spans[k].score>>]
    ELSE <<>>

\* lines 183-184: with --verbose the page number is printed, counted from 0
PageLine(file, page_index) ==
    IF verbose /\ file.kind = "pdf" THEN <<<<"Page", page_index>>>> ELSE <<>>

\* lines 193-197 and 226-230: the counts of one page or chunk are added
RECURSIVE AddCounts(_, _)
AddCounts(acc, found) ==
    IF found = <<>> THEN acc
    ELSE LET key == Head(found)[1]
             value == Head(found)[2]
         IN  AddCounts(
                 IF HasKey(acc, key)
                 THEN [i \in DOMAIN acc |->
                          IF acc[i][1] = key
                          THEN <<key, [tag |-> acc[i][2].tag,
                                       count |-> acc[i][2].count + value.count]>>
                          ELSE acc[i]]
                 ELSE Append(acc, <<key, value>>),
                 Tail(found))

\* an item is put behind the items whose count is not smaller
RECURSIVE InsertByCount(_, _)
InsertByCount(list, item) ==
    IF list = <<>> THEN <<item>>
    ELSE IF Head(list)[2].count >= item[2].count
    THEN <<Head(list)>> \o InsertByCount(Tail(list), item)
    ELSE <<item>> \o list

\* lines 361-363: sorted(entities.items(), key=count, reverse=True); the sort
\* is stable, entities with the same count stay in the order of the dict
RECURSIVE SortByCount(_, _)
SortByCount(items, list) ==
    IF items = <<>> THEN list
    ELSE SortByCount(Tail(items), InsertByCount(list, Head(items)))

\* lines 246-255: the sheet "Entities" with its header and one row per entity
ExcelSheet(list) ==
    <<<<"Entities">>, <<"Text", "Tag", "Count">>>>
    \o [k \in DOMAIN list |-> <<list[k][1], list[k][2].tag, list[k][2].count>>]

\* lines 272-276: the header and one row per entity, the count as text
CsvRows(list) ==
    <<<<<<"Text">>, <<"Tag">>, <<"Count">>>>>>
    \o [k \in DOMAIN list |->
           <<<<list[k][1]>>, <<list[k][2].tag>>, ToStr(list[k][2].count)>>]

\* lines 378-380: print(entity) for every entity of the list
EntityLines(list) ==
    [k \in DOMAIN list |-> <<"Entity", list[k][1], list[k][2].tag, list[k][2].count>>]

nerRest == <<firstVars, cutVars, docVars, mainVars, chunkVars, getVars, excelVars>>
nerArgs == <<ner_file, certainty, output_excel, output_csv>>

\* lines 361-380: main sorts the dict process_file returned and writes or
\* prints it, behind the lines printed before
MainOutput(returned, lines_before) ==
    /\ sorted_entities' = SortByCount(returned, <<>>)
    /\ LET excel_path == OutputPath(FilePath(ner_file), ".ner.xlsx")
           csv_path == OutputPath(FilePath(ner_file), ".ner.csv")
           with_excel == IF output_excel
                         THEN WriteFile(fs, excel_path, ExcelSheet(sorted_entities'))
                         ELSE fs
       IN  /\ fs' = IF output_csv
                    THEN WriteFile(with_excel, csv_path, CsvRows(sorted_entities'))
                    ELSE with_excel
           /\ stdout' = lines_before
                 \o (IF output_excel /\ verbose
                     THEN <<<<"Data has been written to", FilePath(ner_file), excel_path>>>>
                     ELSE <<>>)
                 \o (IF output_csv /\ verbose
                     THEN <<<<"Data has been written to", FilePath(ner_file), csv_path>>>>
                     ELSE <<>>)
                 \o (IF ~output_csv /\ ~output_excel
                     THEN EntityLines(sorted_entities') ELSE <<>>)
    /\ pc' = "ner_done"
    /\ UNCHANGED <<nerArgs, item_pos, entities, exit_status, http_log, nerRest>>

InitNer ==
    /\ pc = "ner_start"
    /\ ner_file \in NerFiles
    /\ certainty \in Certainties
    \* a file that main never opens is given no pages
    /\ CertaintyRejected(certainty) => ner_file.items = <<>>
    /\ output_excel \in BOOLEAN
    /\ output_csv \in BOOLEAN
    /\ verbose \in BOOLEAN
    /\ item_pos = 0
    /\ entities = <<>>
    /\ sorted_entities = <<>>
    /\ EnvIdle
    /\ FirstIdle
    /\ CutIdle /\ DocIdle /\ MainIdle /\ ChunkIdle /\ GetIdle /\ ExcelOff

\* lines 319-321
NerRejectCertainty ==
    /\ pc = "ner_start"
    /\ CertaintyRejected(certainty)
    /\ stdout' = Append(stdout, <<"Error: Certainty should be between 0 and 1.">>)
    /\ pc' = "ner_rejected"
    /\ UNCHANGED <<nerVars, fs, exit_status, http_log, nerRest>>

\* lines 323-331: the path is no file, or has another extension
NerRejectFile ==
    /\ pc = "ner_start"
    /\ ~CertaintyRejected(certainty)
    /\ ner_file.kind \in {"missing", "other"}
    /\ stdout' = Append(stdout,
           IF ner_file.kind = "missing"
           THEN <<"Error: The specified file does not exist.", FilePath(ner_file)>>
           ELSE <<"Error: File is not a valid PDF or TXT.", FilePath(ner_file)>>)
    /\ pc' = "ner_rejected"
    /\ UNCHANGED <<nerVars, fs, exit_status, http_log, nerRest>>

NerAccepted ==
    /\ pc = "ner_start"
    /\ ~CertaintyRejected(certainty)
    /\ ner_file.kind \in {"pdf", "txt"}

\* lines 333-345: what --verbose prints up to the loading of the model
LoadingLines(cuda) ==
    IF verbose
    THEN <<IF cuda THEN <<"CUDA is available!">>
           ELSE <<"CUDA is not available. Using CPU...">>,
           <<"Loading", "flair/ner-dutch-large">>>>
    ELSE <<>>

\* lines 333-349: SequenceTagger.load raises one of the errors of line 347
NerLoadFails ==
    /\ NerAccepted
    /\ \E cuda \in BOOLEAN :
          stdout' = stdout \o LoadingLines(cuda) \o <<<<"Error loading the NER model">>>>
    /\ pc' = "ner_rejected"
    /\ UNCHANGED <<nerVars, fs, exit_status, http_log, nerRest>>

\* lines 333-360: the model is loaded and process_file is called
NerStart ==
    /\ NerAccepted
    /\ \E cuda \in BOOLEAN :
          stdout' = stdout \o LoadingLines(cuda)
                    \o (IF verbose THEN <<<<"Processing", FilePath(ner_file)>>>> ELSE <<>>)
    /\ pc' = "ner_items"
    /\ UNCHANGED <<nerVars, fs, exit_status, http_log, nerRest>>

\* lines 219-220 and 361-380: a text without meaningful content gives {}
NerTextNotMeaningful ==
    /\ pc = "ner_items"
    /\ ner_file.kind = "txt" /\ ~ner_file.meaningful
    /\ MainOutput(<<>>, stdout)

NerRunning ==
    /\ pc = "ner_items"
    /\ ner_file.kind = "txt" => ner_file.meaningful
    /\ item_pos < Len(ner_file.items)

\* lines 183-188
NerPageSkipped ==
    /\ NerRunning
    /\ ner_file.items[item_pos + 1].skipped
    /\ stdout' = stdout \o PageLine(ner_file, item_pos)
    /\ item_pos' = item_pos + 1
    /\ UNCHANGED <<pc, nerArgs, entities, sorted_entities, fs, exit_status,
                   http_log, nerRest>>

\* lines 183-197 and 224-230: the tagger returns
NerItemTagged ==
    /\ NerRunning
    /\ LET item == ner_file.items[item_pos + 1]
           found == process_entities(item, certainty)
       IN  /\ ~item.skipped
           /\ found # None
           /\ entities' = AddCounts(entities, found[1])
           /\ stdout' = stdout \o PageLine(ner_file, item_pos) \o SpanLines(item.spans)
    /\ item_pos' = item_pos + 1
    /\ UNCHANGED <<pc, nerArgs, sorted_entities, fs, exit_status, http_log, nerRest>>

\* lines 154-155 and 192: the tagger raises RuntimeError or ValueError on a
\* page; entities_page is None
NerPageFails ==
    /\ NerRunning
    /\ ner_file.kind = "pdf"
    /\ ner_file.items[item_pos + 1].raises = TaggingError
    /\ stdout' = stdout \o PageLine(ner_file, item_pos)
                        \o <<<<"Error in NER tagging">>>>
    /\ item_pos' = item_pos + 1
    /\ UNCHANGED <<pc, nerArgs, entities, sorted_entities, fs, exit_status,
                   http_log, nerRest>>

\* lines 198-200 and 361-380: a MemoryError on a page leaves the loop; the
\* entities of the pages before it are returned
NerPdfAborts ==
    /\ NerRunning
    /\ ner_file.kind = "pdf"
    /\ ner_file.items[item_pos + 1].raises = "MemoryError"
    /\ MainOutput(entities,
                  stdout \o PageLine(ner_file, item_pos)
                  \o <<<<"Error processing PDF", FilePath(ner_file), item_pos>>>>)

\* lines 154-155 and 226: the tagger raises RuntimeError or ValueError on a
\* chunk; chunk_entities is None and None.items() raises AttributeError,
\* which nothing catches
NerChunkFails ==
    /\ NerRunning
    /\ ner_file.kind = "txt"
    /\ ner_file.items[item_pos + 1].raises = TaggingError
    /\ stdout' = Append(stdout, <<"Error in NER tagging">>)
    /\ exit_status' = Some(1)
    /\ pc' = "ner_crashed"
    /\ UNCHANGED <<nerVars, fs, http_log, nerRest>>

\* lines 154, 225 and 381: a MemoryError on a chunk is caught neither by
\* process_entities nor by main
NerChunkMemoryError ==
    /\ NerRunning
    /\ ner_file.kind = "txt"
    /\ ner_file.items[item_pos + 1].raises = "MemoryError"
    /\ exit_status' = Some(1)
    /\ pc' = "ner_memory_error"
    /\ UNCHANGED <<nerVars, fs, stdout, http_log, nerRest>>

\* lines 200, 231 and 361-380: every page or chunk was iterated
NerReturn ==
    /\ pc = "ner_items"
    /\ ner_file.kind = "txt" => ner_file.meaningful
    /\ item_pos = Len(ner_file.items)
    /\ MainOutput(entities, stdout)

NextNer ==
    \/ NerRejectCertainty \/ NerRejectFile \/ NerLoadFails \/ NerStart
    \/ NerTextNotMeaningful \/ NerPageSkipped \/ NerItemTagged
    \/ NerPageFails \/ NerPdfAborts \/ NerChunkFails \/ NerChunkMemoryError
    \/ NerReturn

SpecNer == InitNer /\ [][NextNer]_vars

\* the spans recognised so far that count: <<item, position>> of every span
\* of a processed page or chunk with score >= certainty and a tag other
\* than MISC
CountedSpans ==
    UNION {{<<i, j>> : j \in {k \in DOMAIN ner_file.items[i].spans :
                LET span == ner_file.items[i].spans[k] IN
                /\ ~F64Lt(span.score, certainty)
                /\ span.tag # "MISC"}}
           : i \in 1..item_pos}
SpanAt(p) == ner_file.items[p[1]].spans[p[2]]
Earlier(p, q) == p[1] < q[1] \/ (p[1] = q[1] /\ p[2] <= q[2])
EntityTexts == {s.text : s \in SpanChoices}

\* the rows of a list of entities as main puts them out: text, tag, count
ResultRows(list) ==
    [k \in DOMAIN list |-> <<list[k][1], list[k][2].tag, list[k][2].count>>]

\* C23: while and after the pages or chunks are processed, an entity text is
\* recorded exactly when a counted span has that text; its count is the number
\* of those spans and its tag the tag of the first of them.  The result main
\* puts out holds exactly these entities, the larger counts first: in the
\* sheet, in the CSV file, or printed when neither was asked for.
C23_CountsAndFirstTag ==
    /\ pc \in {"ner_items", "ner_done"} =>
        /\ \A i, j \in DOMAIN entities : entities[i][1] = entities[j][1] => i = j
        /\ \A t \in EntityTexts :
              LET spans == {p \in CountedSpans : SpanAt(p).text = t} IN
              IF spans = {} THEN ~HasKey(entities, t)
              ELSE /\ HasKey(entities, t)
                   /\ Lookup(entities, t).count = Cardinality(spans)
                   /\ Lookup(entities, t).tag =
                         SpanAt(CHOOSE p \in spans : \A q \in spans : Earlier(p, q)).tag
    /\ pc = "ner_done" =>
        LET rows == ResultRows(sorted_entities)
            n == Len(rows)
        IN  /\ n = Len(entities)
            /\ \A i \in DOMAIN entities :
                  \E k \in DOMAIN sorted_entities : sorted_entities[k] = entities[i]
            /\ \A k \in 1..(n - 1) : rows[k][3] >= rows[k + 1][3]
            /\ output_excel =>
                  \E f \in fs :
                      /\ f.path = <<"doc", ".ner.xlsx">>
                      /\ Len(f.content) = n + 2
                      /\ \A k \in 1..n : f.content[k + 2] = rows[k]
            /\ output_csv =>
                  \E f \in fs :
                      /\ f.path = <<"doc", ".ner.csv">>
                      /\ Len(f.content) = n + 1
                      /\ \A k \in 1..n :
                            f.content[k + 1] =
                                <<<<rows[k][1]>>, <<rows[k][2]>>, ToStr(rows[k][3])>>
            /\ (~output_excel /\ ~output_csv) =>
                  /\ Len(stdout) >= n
                  /\ \A k \in 1..n :
                        stdout[Len(stdout) - n + k] = <<"Entity">> \o rows[k]

\* C23 witness: entity A is counted on two items, first as LOC and later as
\* PER, a MISC span of B was left out, B was counted once, and the CSV file
\* has A before B
C23_Witness ==
    /\ pc = "ner_done"
    /\ item_pos = 2
    /\ output_csv
    /\ entities = <<<<"B", [tag |-> "PER", count |-> 1]>>,
                    <<"A", [tag |-> "LOC", count |-> 2]>>>>
    /\ sorted_entities = <<entities[2], entities[1]>>
    /\ \E j \in DOMAIN ner_file.items[2].spans :
          ner_file.items[2].spans[j].tag = "PER" /\ ner_file.items[2].spans[j].text = "A"
    /\ \E i \in 1..2 : \E j \in DOMAIN ner_file.items[i].spans :
          ner_file.items[i].spans[j].tag = "MISC"
    /\ \E f \in fs : f.path = <<"doc", ".ner.csv">> /\ Len(f.content) = 3

\* the messages of process_entities' except clause printed so far
TaggingErrorLines ==
    Cardinality({k \in DOMAIN stdout : stdout[k] = <<"Error in NER tagging">>})

\* C24: when the tagger raises RuntimeError or ValueError on a page or chunk,
\* a message is printed, the item is passed over and the loop goes on: the
\* run never aborts on it, one message is printed per failed item, and a run
\* without a MemoryError that finishes has iterated every item.
C24_TaggerErrorSkipsItem ==
    /\ pc # "ner_crashed"
    /\ pc \in {"ner_items", "ner_done"} =>
          TaggingErrorLines =
              Cardinality({i \in 1..item_pos :
                  ner_file.items[i].raises = TaggingError})
    /\ (/\ pc = "ner_done"
        /\ ner_file.kind = "txt" => ner_file.meaningful
        /\ \A i \in DOMAIN ner_file.items : ner_file.items[i].raises # "MemoryError") =>
          item_pos = Len(ner_file.items)

(***************************************************************************)
(* The loop of find_document_number.analyse (SpecDoc), step by step.       *)
(***************************************************************************)
\* the ID the next step of the loop looks at, as (m, t), and its text
NextNumber == ToInt(IdGroups(output_data[id_pos + 1][1])[1])
NextLetters == IdGroups(output_data[id_pos + 1][1])[2]
NextIdText == ToStr(NextNumber) \o NextLetters
\* the step takes the ID as the last accepted one and reports nothing
StepAccepts ==
    prev_id' = <<NextNumber, NextLetters>> /\ out_of_order_ids' = out_of_order_ids
\* the step reports the ID and leaves the last accepted one alone
StepReports ==
    out_of_order_ids' = Append(out_of_order_ids, NextIdText) /\ prev_id' = prev_id
\* m = n+1, or m = n with t after s
Follows == \/ NextNumber = prev_id[1] + 1
           \/ NextNumber = prev_id[1] /\ StrGt(NextLetters, prev_id[2])
IsGap == NextNumber > prev_id[1] + 1

\* C25: after the first ID, the next ID (m, t) is accepted exactly when
\* m = n+1, or m = n and t > s, or m > n+1; otherwise it is reported
\* out-of-order and (n, s) stays.
C25_AcceptedIffFollowsOrGap ==
    [][(pc = "doc_analyse" /\ id_pos' = id_pos + 1) =>
          IF first THEN StepAccepts
          ELSE /\ StepAccepts <=> (Follows \/ IsGap)
               /\ ~StepAccepts => StepReports
    ]_vars

\* C25 witness: 2b was accepted after 2a, and the 2 that came next was
\* reported out-of-order with 2b kept as the last accepted ID
C25_Witness ==
    /\ pc = "doc_analyse"
    /\ ~first
    /\ id_pos = 3
    /\ output_data[1][1] = <<"2", "a">>
    /\ output_data[2][1] = <<"2", "b">>
    /\ output_data[3][1] = <<"2">>
    /\ prev_id = <<2, <<"b">>>>
    /\ out_of_order_ids = <<<<"2">>>>

====
